---- MODULE Spec2Model ----
(***************************************************************************)
(* The class-enrollment request workflow of                                *)
(* src/controllers/classRequestController.js: the ClassRequest collection, *)
(* Class.enrolledStudents, Student.enrolledClasses and the notifications   *)
(* the handlers create; and of the student controller in                   *)
(* src/test-cors.html, registerStudent and updateOwnProfile, which write    *)
(* Student.enrolledClasses.                                                *)
(*                                                                         *)
(* Spec      one handler at a time, each handler one atomic action         *)
(* ConcSpec  two admin handlers in flight, interleaving at every await     *)
(*                                                                         *)
(* RaceSpec  two handlers in flight, create, reject and delete among them  *)
(* FaultSpec one handler at a time, with save() calls that throw           *)
(* ApproveFaultSpec  the same for approveClassRequest                      *)
(* NotifySpec  one handler at a time, with writes of the request that throw *)
(* RegisterSpec  the students register and update their profiles, too     *)
(* PasswordSpec  the password reset of the student controller              *)
(* RoundTripSpec  one handler at a time, then approve, changeStatus to      *)
(*           Rejected and changeStatus to Approved of one request in a row  *)
(*                                                                         *)
(* Store semantics (mongoose defaults): save() after array.push() appends  *)
(* the pushed element to the stored array ($push); save() after the array  *)
(* was reassigned (filter) stores the whole local array ($set); save() of  *)
(* status/adminResponse stores those fields; documents populated by one    *)
(* query that reference the same class or student share one document       *)
(* instance. save() of a document that is no longer stored throws. A       *)
(* save() that throws stores nothing and leaves the document               *)
(* in memory as it was modified; the next save() of that document that     *)
(* succeeds stores its pending changes too.                                *)
(***************************************************************************)
EXTENDS Integers, Sequences, FiniteSets, TLC

\* The number of ClassRequest documents ever created in a behaviour.
MaxRequests == 2

----------------------------------------------------------------------------
\* Fixed documents of the collaborating collections

\* null, where a document is expected
Null == [null |-> TRUE]
\* null, where an id is expected
NoId == "null"

\* Student _ids; "s3" is a student whose registration is not approved
StudentIds == {"s1", "s2", "s3"}
\* req.user.id of the callers of the student endpoints; "u4" has no Student
UserIds == {"u1", "u2", "u3", "u4"}
\* Class _ids; "c3" is inactive, "c4" is not of type Normal
ClassIds == {"c1", "c2", "c3", "c4"}
\* a classId that is no Class document
NoSuchClass == "c0"

Student(sid) ==
  [ _id |-> sid,
    userId |-> CASE sid = "s1" -> "u1" [] sid = "s2" -> "u2" [] OTHER -> "u3",
    status |-> IF sid = "s3" THEN "Pending" ELSE "Approved" ]

Class(cid) ==
  [ _id |-> cid,
    capacity |-> IF cid = "c1" THEN 1 ELSE 2,
    isActive |-> cid # "c3",
    type |-> IF cid = "c4" THEN "Special" ELSE "Normal" ]

\* Student.findOne({ userId })
StudentFindOne(userId) ==
  IF \E sid \in StudentIds : Student(sid).userId = userId
  THEN CHOOSE sid \in StudentIds : Student(sid).userId = userId
  ELSE NoId

RequestIds == 1..MaxRequests
Statuses == {"Pending", "Approved", "Rejected"}
\* req.user.id and req.body.adminNote of the admin endpoints
AdminCalls == { [user |-> "admin1", adminNote |-> ""],
                [user |-> "admin2", adminNote |-> "checked"] }
Reasons == {"reason"}

----------------------------------------------------------------------------
VARIABLES
  classRequests,     \* ClassRequest collection: request id -> document or Null
  nextId,            \* the id the next created ClassRequest gets
  enrolledStudents,  \* Class.enrolledStudents, per class id
  enrolledClasses,   \* Student.enrolledClasses, per student id
  notified,          \* Notification documents created by the last handler
  response,          \* the last HTTP response: status code and body
  proc,              \* the handlers in flight (ConcSpec)
  registered,        \* the users who have a Student document
  accounts           \* the OTP collection and the student's stored passwords

vars == <<classRequests, nextId, enrolledStudents, enrolledClasses,
          notified, response, proc, registered, accounts>>

----------------------------------------------------------------------------
\* The code the handlers share

\* list.some(id => id.equals(x)) / list.includes(x)
IsEnrolled(list, x) == \E i \in DOMAIN list : list[i] = x

AtFullCapacityOffByOne(roster, sid, capacity) ==
  ~IsEnrolled(roster, sid) /\ Len(roster) > capacity

AtFullCapacityNoCheck(roster, sid, capacity) == FALSE

AtFullCapacityOneEarly(roster, sid, capacity) ==
  ~IsEnrolled(roster, sid) /\ Len(roster) + 1 >= capacity

AtFullCapacityIgnoringMembership(roster, sid, capacity) ==
  Len(roster) >= capacity

\* !isStudentAlreadyEnrolled && enrolledCount >= capacity
AtFullCapacity(roster, sid, capacity) ==
  ~IsEnrolled(roster, sid) /\ Len(roster) >= capacity

PushAlways(list, x) == Append(list, x)

\* if (!list.some(id => id.equals(x))) list.push(x)
PushIfAbsent(list, x) ==
  IF IsEnrolled(list, x) THEN list ELSE Append(list, x)

FilterOutInverted(list, x) == SelectSeq(list, LAMBDA y : y = x)

\* list.filter(id => !id.equals(x))
FilterOut(list, x) == SelectSeq(list, LAMBDA y : y # x)

NotPendingOnlyApproved(classRequest) == classRequest.status = "Approved"

\* classRequest.status !== 'Pending'
NotPending(classRequest) == classRequest.status # "Pending"

RemovingOnlyToRejected(oldStatus, status) ==
  oldStatus = "Approved" /\ status = "Rejected"

\* oldStatus === 'Approved' && status !== 'Approved'
Removing(oldStatus, status) == oldStatus = "Approved" /\ status # "Approved"

AddingFromApproved(oldStatus, status) ==
  oldStatus = "Approved" /\ status = "Approved"

AddingOnlyFromPending(oldStatus, status) ==
  oldStatus = "Pending" /\ status = "Approved"

\* oldStatus !== 'Approved' && status === 'Approved'
Adding(oldStatus, status) == oldStatus # "Approved" /\ status = "Approved"

\* adminNote || <default>; a text is the sequence of its parts
NoteOr(adminNote, default) == IF adminNote = "" THEN default ELSE <<adminNote>>

AdminResponseOfNobody(user, note) == [actionBy |-> NoId, actionNote |-> note]

\* adminResponse = { actionBy: req.user.id, actionDate, actionNote }
AdminResponse(user, note) == [actionBy |-> user, actionNote |-> note]

Notification(recipient, type, requestId, classId) ==
  [recipient |-> recipient, type |-> type,
   classRequestId |-> requestId, classId |-> classId]

\* res.status(code).json({ message, request }); a message is the sequence of
\* its parts, the interpolated values among them
Json(op, code, message, request) ==
  [op |-> op, code |-> code, message |-> message, request |-> request]

\* What a handler leaves behind
Out(reqs, students, classes, sent, resp) ==
  [classRequests |-> reqs, enrolledStudents |-> students,
   enrolledClasses |-> classes, notified |-> sent, response |-> resp]

\* An early return: nothing is written
Return(resp) ==
  Out(classRequests, enrolledStudents, enrolledClasses, <<>>, resp)

\* ClassRequest.findById(requestId)
FindById(requestId) ==
  IF requestId \in DOMAIN classRequests THEN classRequests[requestId] ELSE Null

----------------------------------------------------------------------------
\* The handlers, each from the documents it loads to its response

ExistingRequestNeverFound(sid, cid) == FALSE

\* ClassRequest.findOne({ student, class, status: 'Pending' })
ExistingRequest(sid, cid) ==
  \E r \in RequestIds :
    /\ classRequests[r] # Null
    /\ classRequests[r].student = sid
    /\ classRequests[r].class = cid
    /\ classRequests[r].status = "Pending"

\* The create that tells the student of the new request
createClassRequestNotifying(userId, classId, reason) ==
  LET student == StudentFindOne(userId) IN
  IF student = NoId
  THEN Return(Json("create", 404, <<"Student profile not found">>, Null))
  ELSE IF Student(student).status # "Approved"
  THEN Return(Json("create", 400,
         <<"Student registration must be approved before requesting class enrollment">>, Null))
  ELSE IF classId \notin ClassIds
  THEN Return(Json("create", 404, <<"Class not found">>, Null))
  ELSE IF ~Class(classId).isActive \/ Class(classId).type # "Normal"
  THEN Return(Json("create", 400, <<"Class is not available for enrollment">>, Null))
  ELSE IF IsEnrolled(enrolledClasses[student], classId)
  THEN Return(Json("create", 400, <<"Already enrolled in this class">>, Null))
  ELSE IF ExistingRequest(student, classId)
  THEN Return(Json("create", 400,
         <<"You already have a pending request for this class">>, Null))
  ELSE Out([r \in RequestIds |->
              IF r = nextId
              THEN [student |-> student, class |-> classId, reason |-> reason,
                    status |-> "Pending", adminResponse |-> Null]
              ELSE classRequests[r]],
           enrolledStudents, enrolledClasses,
           <<Notification(userId, "general", nextId, classId)>>,
           Json("create", 201,
                <<"Class enrollment request submitted successfully">>, [id |-> nextId]))

createClassRequest(userId, classId, reason) ==
  LET student == StudentFindOne(userId) IN
  IF student = NoId
  THEN Return(Json("create", 404, <<"Student profile not found">>, Null))
  ELSE IF Student(student).status # "Approved"
  THEN Return(Json("create", 400,
         <<"Student registration must be approved before requesting class enrollment">>, Null))
  ELSE IF classId \notin ClassIds
  THEN Return(Json("create", 404, <<"Class not found">>, Null))
  ELSE IF ~Class(classId).isActive \/ Class(classId).type # "Normal"
  THEN Return(Json("create", 400, <<"Class is not available for enrollment">>, Null))
  ELSE IF IsEnrolled(enrolledClasses[student], classId)
  THEN Return(Json("create", 400, <<"Already enrolled in this class">>, Null))
  ELSE IF ExistingRequest(student, classId)
  THEN Return(Json("create", 400,
         <<"You already have a pending request for this class">>, Null))
  ELSE Out([r \in RequestIds |->
              IF r = nextId
              THEN [student |-> student, class |-> classId, reason |-> reason,
                    status |-> "Pending", adminResponse |-> Null]
              ELSE classRequests[r]],
           enrolledStudents, enrolledClasses, <<>>,
           Json("create", 201,
                <<"Class enrollment request submitted successfully">>, [id |-> nextId]))

approveClassRequest(requestId, user, adminNote, notificationOk) ==
  LET classRequest == FindById(requestId) IN
  IF classRequest = Null
  THEN Return(Json("approve", 404, <<"Class request not found">>, Null))
  ELSE IF NotPending(classRequest)
  THEN Return(Json("approve", 400, <<"Class request is not pending">>, Null))
  ELSE IF AtFullCapacity(enrolledStudents[classRequest.class],
                         classRequest.student,
                         Class(classRequest.class).capacity)
  THEN Return(Json("approve", 400, <<"Class is at full capacity">>, Null))
  ELSE Out([classRequests EXCEPT ![requestId] =
              [classRequest EXCEPT
                 !.status = "Approved",
                 !.adminResponse =
                    AdminResponse(user, NoteOr(adminNote, <<"Request approved">>))]],
           [enrolledStudents EXCEPT ![classRequest.class] =
              PushIfAbsent(@, classRequest.student)],
           [enrolledClasses EXCEPT ![classRequest.student] =
              PushIfAbsent(@, classRequest.class)],
           IF notificationOk
           THEN <<Notification(Student(classRequest.student).userId,
                               "class_request_approved", requestId,
                               classRequest.class)>>
           ELSE <<>>,
           Json("approve", 200, <<"Class request approved successfully">>, [id |-> requestId]))

\* The reject that also takes the student off the roster
rejectClassRequestUnenrolling(requestId, user, adminNote, notificationOk) ==
  LET classRequest == FindById(requestId) IN
  IF classRequest = Null
  THEN Return(Json("reject", 404, <<"Class request not found">>, Null))
  ELSE IF NotPending(classRequest)
  THEN Return(Json("reject", 400, <<"Class request is not pending">>, Null))
  ELSE Out([classRequests EXCEPT ![requestId] =
              [classRequest EXCEPT
                 !.status = "Rejected",
                 !.adminResponse =
                    AdminResponse(user, NoteOr(adminNote, <<"Request rejected">>))]],
           [enrolledStudents EXCEPT ![classRequest.class] =
              FilterOut(@, classRequest.student)],
           [enrolledClasses EXCEPT ![classRequest.student] =
              FilterOut(@, classRequest.class)],
           IF notificationOk
           THEN <<Notification(Student(classRequest.student).userId,
                               "class_request_rejected", requestId,
                               classRequest.class)>>
           ELSE <<>>,
           Json("reject", IF notificationOk THEN 200 ELSE 500,
                IF notificationOk THEN <<"Class request rejected">>
                ELSE <<"Server error">>,
                IF notificationOk THEN [id |-> requestId] ELSE Null))

rejectClassRequest(requestId, user, adminNote, notificationOk) ==
  LET classRequest == FindById(requestId) IN
  IF classRequest = Null
  THEN Return(Json("reject", 404, <<"Class request not found">>, Null))
  ELSE IF NotPending(classRequest)
  THEN Return(Json("reject", 400, <<"Class request is not pending">>, Null))
  ELSE LET saved == [classRequests EXCEPT ![requestId] =
                       [classRequest EXCEPT
                          !.status = "Rejected",
                          !.adminResponse =
                             AdminResponse(user, NoteOr(adminNote, <<"Request rejected">>))]]
       IN  IF notificationOk
           THEN Out(saved, enrolledStudents, enrolledClasses,
                    <<Notification(Student(classRequest.student).userId,
                                   "class_request_rejected", requestId,
                                   classRequest.class)>>,
                    Json("reject", 200, <<"Class request rejected">>, [id |-> requestId]))
           \* createNotification is not in a try of its own: the outer catch answers
           ELSE Out(saved, enrolledStudents, enrolledClasses, <<>>,
                    Json("reject", 500, <<"Server error">>, Null))

changeClassRequestStatus(requestId, status, user, adminNote, notificationOk) ==
  LET classRequest == FindById(requestId) IN
  IF classRequest = Null
  THEN Return(Json("changeStatus", 404, <<"Class request not found">>, Null))
  ELSE
  LET oldStatus == classRequest.status
      sid == classRequest.student
      cid == classRequest.class
      removing == Removing(oldStatus, status)
      adding == Adding(oldStatus, status)
  IN
  IF adding /\ AtFullCapacity(enrolledStudents[cid], sid, Class(cid).capacity)
  THEN Return(Json("changeStatus", 400, <<"Class is at full capacity">>, Null))
  ELSE Out([classRequests EXCEPT ![requestId] =
              [classRequest EXCEPT
                 !.status = status,
                 !.adminResponse =
                    AdminResponse(user,
                      NoteOr(adminNote, <<"Status changed from", oldStatus, "to", status>>))]],
           [enrolledStudents EXCEPT ![cid] =
              IF removing THEN FilterOut(@, sid)
              ELSE IF adding THEN PushIfAbsent(@, sid) ELSE @],
           [enrolledClasses EXCEPT ![sid] =
              IF removing THEN FilterOut(@, cid)
              ELSE IF adding THEN PushIfAbsent(@, cid) ELSE @],
           IF notificationOk
           THEN <<Notification(Student(sid).userId, "class_request_status_change",
                               requestId, cid)>>
           ELSE <<>>,
           Json("changeStatus", 200, <<"Class request status changed from", oldStatus, "to", status, "successfully">>,
                [id |-> requestId]))

RECURSIVE PendingFromAnyStatus(_, _)
PendingFromAnyStatus(reqs, r) ==
  IF r > MaxRequests THEN <<>>
  ELSE (IF reqs[r] # Null THEN <<r>> ELSE <<>>)
       \o PendingFromAnyStatus(reqs, r + 1)

\* ClassRequest.find({ status: 'Pending' }), in the order of creation
RECURSIVE PendingFrom(_, _)
PendingFrom(reqs, r) ==
  IF r > MaxRequests THEN <<>>
  ELSE (IF reqs[r] # Null /\ reqs[r].status = "Pending" THEN <<r>> ELSE <<>>)
       \o PendingFrom(reqs, r + 1)

FailedRequest(classRequest, reason) ==
  [studentName |-> classRequest.student, className |-> classRequest.class,
   reason |-> reason]

\* The loop body with the capacity test made on the roster as it was stored
\* before the batch
approveOneStaleRoster(acc, requestId, user, adminNote, notificationOk) ==
  LET classRequest == acc.classRequests[requestId]
      sid == classRequest.student
      cid == classRequest.class
  IN
  IF AtFullCapacity(enrolledStudents[cid], sid, Class(cid).capacity)
  THEN [acc EXCEPT
          !.failedCount = @ + 1,
          !.failedRequests =
             Append(@, FailedRequest(classRequest, "Class is at full capacity"))]
  ELSE [acc EXCEPT
          !.enrolledStudents[cid] = PushIfAbsent(@, sid),
          !.enrolledClasses[sid] = PushIfAbsent(@, cid),
          !.classRequests[requestId] =
             [classRequest EXCEPT
                !.status = "Approved",
                !.adminResponse =
                   AdminResponse(user,
                     NoteOr(adminNote, <<"Bulk approval by administrator">>))],
          !.notified =
             IF notificationOk
             THEN Append(@, Notification(Student(sid).userId,
                                         "class_request_approved", requestId, cid))
             ELSE @,
          !.approvedCount = @ + 1]

\* One turn of the loop of approveAllPendingRequests. The populated class and
\* student documents are shared by the items of the batch, so an item sees
\* what the items before it pushed.
approveOne(acc, requestId, user, adminNote, notificationOk) ==
  LET classRequest == acc.classRequests[requestId]
      sid == classRequest.student
      cid == classRequest.class
  IN
  IF AtFullCapacity(acc.enrolledStudents[cid], sid, Class(cid).capacity)
  THEN [acc EXCEPT
          !.failedCount = @ + 1,
          !.failedRequests =
             Append(@, FailedRequest(classRequest, "Class is at full capacity"))]
  ELSE [acc EXCEPT
          !.enrolledStudents[cid] = PushIfAbsent(@, sid),
          !.enrolledClasses[sid] = PushIfAbsent(@, cid),
          !.classRequests[requestId] =
             [classRequest EXCEPT
                !.status = "Approved",
                !.adminResponse =
                   AdminResponse(user,
                     NoteOr(adminNote, <<"Bulk approval by administrator">>))],
          !.notified =
             IF notificationOk
             THEN Append(@, Notification(Student(sid).userId,
                                         "class_request_approved", requestId, cid))
             ELSE @,
          !.approvedCount = @ + 1]

RECURSIVE approveEach(_, _, _, _, _)
approveEach(acc, pendingRequests, user, adminNote, notificationFails) ==
  IF pendingRequests = <<>> THEN acc
  ELSE approveEach(
         approveOne(acc, Head(pendingRequests), user, adminNote,
                    Head(pendingRequests) \notin notificationFails),
         Tail(pendingRequests), user, adminNote, notificationFails)

approveAllPendingRequests(user, adminNote, notificationFails) ==
  LET pendingRequests == PendingFrom(classRequests, 1) IN
  IF Len(pendingRequests) = 0
  THEN Return(Json("approveAll", 400, <<"No pending class requests found">>, Null))
  ELSE
  LET done == approveEach(
                [classRequests |-> classRequests,
                 enrolledStudents |-> enrolledStudents,
                 enrolledClasses |-> enrolledClasses,
                 notified |-> <<>>,
                 approvedCount |-> 0, failedCount |-> 0, failedRequests |-> <<>>],
                pendingRequests, user, adminNote, notificationFails)
  IN
  Out(done.classRequests, done.enrolledStudents, done.enrolledClasses,
      done.notified,
      [op |-> "approveAll", code |-> 200,
       message |-> <<"Successfully approved class requests">>,
       approvedCount |-> done.approvedCount,
       failedCount |-> done.failedCount,
       failedRequests |-> done.failedRequests])

\* The student's delete without the test of ownership
deleteClassRequestOfAnyStudent(userId, requestId) ==
  LET student == StudentFindOne(userId)
      classRequest == FindById(requestId)
  IN
  IF student = NoId
  THEN Return(Json("delete", 404, <<"Student profile not found">>, Null))
  ELSE IF classRequest = Null
  THEN Return(Json("delete", 404, <<"Class request not found">>, Null))
  ELSE IF classRequest.status # "Pending"
  THEN Return(Json("delete", 400, <<"You can only delete pending class requests">>, Null))
  ELSE Out([classRequests EXCEPT ![requestId] = Null],
           enrolledStudents, enrolledClasses, <<>>,
           Json("delete", 200, <<"Class request deleted successfully">>, Null))

deleteClassRequest(userId, requestId) ==
  LET student == StudentFindOne(userId)
      classRequest == FindById(requestId)
  IN
  IF student = NoId
  THEN Return(Json("delete", 404, <<"Student profile not found">>, Null))
  ELSE IF classRequest = Null
  THEN Return(Json("delete", 404, <<"Class request not found">>, Null))
  ELSE IF classRequest.student # student
  THEN Return(Json("delete", 403, <<"You can only delete your own class requests">>, Null))
  ELSE IF classRequest.status # "Pending"
  THEN Return(Json("delete", 400, <<"You can only delete pending class requests">>, Null))
  ELSE Out([classRequests EXCEPT ![requestId] = Null],
           enrolledStudents, enrolledClasses, <<>>,
           Json("delete", 200, <<"Class request deleted successfully">>, Null))

\* The admin's delete with the membership removed whatever the status
adminDeleteClassRequestAlwaysRemoving(requestId, notificationOk) ==
  LET classRequest == FindById(requestId) IN
  IF classRequest = Null
  THEN Return(Json("adminDelete", 404, <<"Class request not found">>, Null))
  ELSE
  LET sid == classRequest.student
      cid == classRequest.class
  IN
  Out([classRequests EXCEPT ![requestId] = Null],
      [enrolledStudents EXCEPT ![cid] = FilterOut(@, sid)],
      [enrolledClasses EXCEPT ![sid] = FilterOut(@, cid)],
      IF notificationOk
      THEN <<Notification(sid, "general", requestId, cid)>>
      ELSE <<>>,
      Json("adminDelete", 200, <<"Class request deleted successfully">>,
           [status |-> classRequest.status]))

\* The admin's delete with the class kept in the student's enrolledClasses
adminDeleteClassRequestClassSideOnly(requestId, notificationOk) ==
  LET classRequest == FindById(requestId) IN
  IF classRequest = Null
  THEN Return(Json("adminDelete", 404, <<"Class request not found">>, Null))
  ELSE
  LET sid == classRequest.student
      cid == classRequest.class
      approved == classRequest.status = "Approved"
  IN
  Out([classRequests EXCEPT ![requestId] = Null],
      [enrolledStudents EXCEPT ![cid] = IF approved THEN FilterOut(@, sid) ELSE @],
      enrolledClasses,
      IF notificationOk
      THEN <<Notification(sid, "general", requestId, cid)>>
      ELSE <<>>,
      Json("adminDelete", 200, <<"Class request deleted successfully">>,
           [status |-> classRequest.status]))

adminDeleteClassRequest(requestId, notificationOk) ==
  LET classRequest == FindById(requestId) IN
  IF classRequest = Null
  THEN Return(Json("adminDelete", 404, <<"Class request not found">>, Null))
  ELSE
  LET sid == classRequest.student
      cid == classRequest.class
      approved == classRequest.status = "Approved"
  IN
  Out([classRequests EXCEPT ![requestId] = Null],
      [enrolledStudents EXCEPT ![cid] = IF approved THEN FilterOut(@, sid) ELSE @],
      [enrolledClasses EXCEPT ![sid] = IF approved THEN FilterOut(@, cid) ELSE @],
      \* populate('student', 'firstName lastName studentId') loads no userId:
      \* the recipient is student.userId || student._id
      IF notificationOk
      THEN <<Notification(sid, "general", requestId, cid)>>
      ELSE <<>>,
      Json("adminDelete", 200, <<"Class request deleted successfully">>,
           [status |-> classRequest.status]))

----------------------------------------------------------------------------
\* Handlers in flight: what a handler holds between two awaits

\* The admin sessions that call concurrently
Procs == {"p1", "p2"}
AdminOf(p) ==
  IF p = "p1" THEN [user |-> "admin1", adminNote |-> ""]
  ELSE [user |-> "admin2", adminNote |-> "checked"]

Idle ==
  [pc |-> "idle", op |-> "none",
   status |-> "none", oldStatus |-> "none",   \* req.body.status, oldStatus
   pendingRequests |-> <<>>, i |-> 1,         \* the loaded request ids, the loop's place
   loaded |-> [r \in RequestIds |-> Null],    \* the loaded ClassRequest documents
   rosters |-> [c \in ClassIds |-> <<>>],     \* enrolledStudents of the populated classes
   classes |-> [s \in StudentIds |-> <<>>],   \* enrolledClasses of the populated students
   approvedCount |-> 0, failedCount |-> 0, failedRequests |-> <<>>,
   draft |-> Null,                            \* the new ClassRequest, not yet saved
   response |-> Json("none", 0, <<>>, Null)]

\* The student's account (src/test-cors.html): no OTP document, and the
\* password of the registration in the User and in the Student document
NoCodes ==
  [otps |-> {},
   studentPassword |-> [user |-> <<"hash", "old">>, student |-> <<"hash", "old">>],
   everVerified |-> {}]

----------------------------------------------------------------------------
Init ==
  /\ classRequests = [r \in RequestIds |-> Null]
  /\ nextId = 1
  /\ enrolledStudents = [c \in ClassIds |-> <<>>]
  /\ enrolledClasses = [s \in StudentIds |-> <<>>]
  /\ notified = <<>>
  /\ response = Json("none", 0, <<>>, Null)
  /\ proc = [p \in Procs |-> Idle]
  /\ registered = {u \in UserIds : StudentFindOne(u) # NoId}
  /\ accounts = NoCodes

----------------------------------------------------------------------------
\* One handler at a time

\* The handler's writes and its response
Handled(out) ==
  /\ classRequests' = out.classRequests
  /\ enrolledStudents' = out.enrolledStudents
  /\ enrolledClasses' = out.enrolledClasses
  /\ notified' = out.notified
  /\ response' = out.response

Create(userId, classId, reason) ==
  LET out == createClassRequest(userId, classId, reason) IN
  /\ out.response.code = 201 => nextId <= MaxRequests
  /\ Handled(out)
  /\ nextId' = IF out.response.code = 201 THEN nextId + 1 ELSE nextId
  /\ UNCHANGED <<proc, registered, accounts>>

Approve(requestId, user, adminNote, notificationOk) ==
  /\ Handled(approveClassRequest(requestId, user, adminNote, notificationOk))
  /\ UNCHANGED <<nextId, proc, registered, accounts>>

Reject(requestId, user, adminNote, notificationOk) ==
  /\ Handled(rejectClassRequest(requestId, user, adminNote, notificationOk))
  /\ UNCHANGED <<nextId, proc, registered, accounts>>

ChangeStatus(requestId, status, user, adminNote, notificationOk) ==
  /\ Handled(changeClassRequestStatus(requestId, status, user, adminNote,
                                      notificationOk))
  /\ UNCHANGED <<nextId, proc, registered, accounts>>

ApproveAll(user, adminNote, notificationFails) ==
  /\ Handled(approveAllPendingRequests(user, adminNote, notificationFails))
  /\ UNCHANGED <<nextId, proc, registered, accounts>>

Delete(userId, requestId) ==
  /\ Handled(deleteClassRequest(userId, requestId))
  /\ UNCHANGED <<nextId, proc, registered, accounts>>

AdminDelete(requestId, notificationOk) ==
  /\ Handled(adminDeleteClassRequest(requestId, notificationOk))
  /\ UNCHANGED <<nextId, proc, registered, accounts>>

Next ==
  \/ \E u \in UserIds, c \in ClassIds \cup {NoSuchClass}, reason \in Reasons :
       Create(u, c, reason)
  \/ \E r \in RequestIds, a \in AdminCalls, ok \in BOOLEAN :
       Approve(r, a.user, a.adminNote, ok)
  \/ \E r \in RequestIds, a \in AdminCalls, ok \in BOOLEAN :
       Reject(r, a.user, a.adminNote, ok)
  \/ \E r \in RequestIds, s \in Statuses, a \in AdminCalls, ok \in BOOLEAN :
       ChangeStatus(r, s, a.user, a.adminNote, ok)
  \/ \E a \in AdminCalls, fails \in SUBSET RequestIds :
       ApproveAll(a.user, a.adminNote, fails)
  \/ \E u \in UserIds, r \in RequestIds : Delete(u, r)
  \/ \E r \in RequestIds, ok \in BOOLEAN : AdminDelete(r, ok)

Spec == Init /\ [][Next]_vars

----------------------------------------------------------------------------
\* One handler at a time, with store writes that fail: the handlers again,
\* each told which of its save() calls throw

\* The save() calls of a handler: of the populated class, of the populated
\* student, of the request
Saves == {"class", "student", "request"}
NoFault == "none"

\* changeClassRequestStatus, where the save() calls in failing throw
changeClassRequestStatusWithFaults(requestId, status, user, adminNote, failing) ==
  LET classRequest == FindById(requestId) IN
  IF classRequest = Null
  THEN Return(Json("changeStatus", 404, <<"Class request not found">>, Null))
  ELSE
  LET oldStatus == classRequest.status
      sid == classRequest.student
      cid == classRequest.class
      roster == enrolledStudents[cid]
      list == enrolledClasses[sid]
      \* the removing branch: a throw leaves the try, and the catch goes on
      classThrows == IsEnrolled(roster, sid) /\ "class" \in failing
      studentThrows == ~classThrows /\ IsEnrolled(list, cid) /\ "student" \in failing
      removedStudents ==
        IF classThrows THEN enrolledStudents
        ELSE [enrolledStudents EXCEPT ![cid] = FilterOut(@, sid)]
      removedClasses ==
        IF classThrows \/ studentThrows THEN enrolledClasses
        ELSE [enrolledClasses EXCEPT ![sid] = FilterOut(@, cid)]
      \* the adding branch: a throw answers 500 from the catch
      pushThrows == ~IsEnrolled(roster, sid) /\ "class" \in failing
      pushedStudents == [enrolledStudents EXCEPT ![cid] = PushIfAbsent(@, sid)]
      pushClassThrows == ~IsEnrolled(list, cid) /\ "student" \in failing
      pushedClasses == [enrolledClasses EXCEPT ![sid] = PushIfAbsent(@, cid)]
      students == IF Removing(oldStatus, status) THEN removedStudents
                  ELSE IF Adding(oldStatus, status) THEN pushedStudents
                  ELSE enrolledStudents
      classes == IF Removing(oldStatus, status) THEN removedClasses
                 ELSE IF Adding(oldStatus, status) THEN pushedClasses
                 ELSE enrolledClasses
  IN
  IF Adding(oldStatus, status)
     /\ AtFullCapacity(roster, sid, Class(cid).capacity)
  THEN Return(Json("changeStatus", 400, <<"Class is at full capacity">>, Null))
  ELSE IF Adding(oldStatus, status) /\ pushThrows
  THEN Return(Json("changeStatus", 500, <<"Error enrolling student in class">>, Null))
  ELSE IF Adding(oldStatus, status) /\ pushClassThrows
  THEN Out(classRequests, pushedStudents, enrolledClasses, <<>>,
           Json("changeStatus", 500, <<"Error enrolling student in class">>, Null))
  ELSE IF "request" \in failing
  THEN Out(classRequests, students, classes, <<>>,
           Json("changeStatus", 500, <<"Server error">>, Null))
  ELSE Out([classRequests EXCEPT ![requestId] =
              [classRequest EXCEPT
                 !.status = status,
                 !.adminResponse =
                    AdminResponse(user,
                      NoteOr(adminNote, <<"Status changed from", oldStatus, "to", status>>))]],
           students, classes,
           <<Notification(Student(sid).userId, "class_request_status_change",
                          requestId, cid)>>,
           Json("changeStatus", 200, <<"Class request status changed from", oldStatus, "to", status, "successfully">>,
                [id |-> requestId]))

\* approveClassRequest, where the save() calls in failing throw: the request
\* is saved first, then the class and the student inside a try of their own
approveClassRequestWithFaults(requestId, user, adminNote, failing) ==
  LET classRequest == FindById(requestId) IN
  IF classRequest = Null
  THEN Return(Json("approve", 404, <<"Class request not found">>, Null))
  ELSE IF NotPending(classRequest)
  THEN Return(Json("approve", 400, <<"Class request is not pending">>, Null))
  ELSE
  LET sid == classRequest.student
      cid == classRequest.class
      saved == [classRequests EXCEPT ![requestId] =
                  [classRequest EXCEPT
                     !.status = "Approved",
                     !.adminResponse =
                        AdminResponse(user, NoteOr(adminNote, <<"Request approved">>))]]
      pushThrows == ~IsEnrolled(enrolledStudents[cid], sid) /\ "class" \in failing
      pushedStudents == [enrolledStudents EXCEPT ![cid] = PushIfAbsent(@, sid)]
      pushClassThrows == ~IsEnrolled(enrolledClasses[sid], cid) /\ "student" \in failing
      pushedClasses == [enrolledClasses EXCEPT ![sid] = PushIfAbsent(@, cid)]
  IN
  IF AtFullCapacity(enrolledStudents[cid], sid, Class(cid).capacity)
  THEN Return(Json("approve", 400, <<"Class is at full capacity">>, Null))
  ELSE IF "request" \in failing
  THEN Return(Json("approve", 500, <<"Server error">>, Null))
  ELSE IF pushThrows
  THEN Out(saved, enrolledStudents, enrolledClasses, <<>>,
           Json("approve", 500, <<"Error enrolling student in class">>, Null))
  ELSE IF pushClassThrows
  THEN Out(saved, pushedStudents, enrolledClasses, <<>>,
           Json("approve", 500, <<"Error enrolling student in class">>, Null))
  ELSE Out(saved, pushedStudents, pushedClasses,
           <<Notification(Student(sid).userId, "class_request_approved",
                          requestId, cid)>>,
           Json("approve", 200, <<"Class request approved successfully">>,
                [id |-> requestId]))

\* rejectClassRequest, where the save() in failing throws
rejectClassRequestWithFaults(requestId, user, adminNote, failing) ==
  IF FindById(requestId) # Null /\ ~NotPending(FindById(requestId))
     /\ "request" \in failing
  THEN Return(Json("reject", 500, <<"Server error">>, Null))
  ELSE rejectClassRequest(requestId, user, adminNote, TRUE)

\* adminDeleteClassRequest, where the writes in failing throw: the save() of
\* the class and of the student inside a try whose catch goes on, then the
\* notification, then findByIdAndDelete ("request")
adminDeleteClassRequestWithFaults(requestId, failing) ==
  LET classRequest == FindById(requestId) IN
  IF classRequest = Null
  THEN Return(Json("adminDelete", 404, <<"Class request not found">>, Null))
  ELSE
  LET sid == classRequest.student
      cid == classRequest.class
      approved == classRequest.status = "Approved"
      classThrows == IsEnrolled(enrolledStudents[cid], sid) /\ "class" \in failing
      studentThrows == IsEnrolled(enrolledClasses[sid], cid) /\ "student" \in failing
      students == IF approved /\ ~classThrows
                  THEN [enrolledStudents EXCEPT ![cid] = FilterOut(@, sid)]
                  ELSE enrolledStudents
      classes == IF approved /\ ~classThrows /\ ~studentThrows
                 THEN [enrolledClasses EXCEPT ![sid] = FilterOut(@, cid)]
                 ELSE enrolledClasses
      sent == <<Notification(sid, "general", requestId, cid)>>
  IN
  IF "request" \in failing
  THEN Out(classRequests, students, classes, sent,
           Json("adminDelete", 500, <<"Server error">>, Null))
  ELSE Out([classRequests EXCEPT ![requestId] = Null], students, classes, sent,
           Json("adminDelete", 200, <<"Class request deleted successfully">>,
                [status |-> classRequest.status]))

ProcessingErrorUncounted(acc, classRequest) ==
  [acc EXCEPT
     !.failedRequests = Append(@, FailedRequest(classRequest, "Processing error"))]

\* The catch of the loop body of approveAllPendingRequests
ProcessingError(acc, classRequest) ==
  [acc EXCEPT
     !.failedCount = @ + 1,
     !.failedRequests = Append(@, FailedRequest(classRequest, "Processing error"))]

\* One turn of the loop of approveAllPendingRequests, where the save() named
\* by fault throws. rosters and classes are the populated documents in
\* memory, enrolledStudents and enrolledClasses what is stored.
approveOneWithFaults(acc, requestId, user, adminNote, fault) ==
  LET classRequest == acc.classRequests[requestId]
      sid == classRequest.student
      cid == classRequest.class
      pushed == [acc EXCEPT !.rosters[cid] = PushIfAbsent(@, sid)]
      classSaved ==
        IF IsEnrolled(acc.rosters[cid], sid) THEN pushed
        ELSE [pushed EXCEPT !.enrolledStudents[cid] = pushed.rosters[cid]]
      pushedClass == [classSaved EXCEPT !.classes[sid] = PushIfAbsent(@, cid)]
      studentSaved ==
        IF IsEnrolled(acc.classes[sid], cid) THEN pushedClass
        ELSE [pushedClass EXCEPT !.enrolledClasses[sid] = pushedClass.classes[sid]]
  IN
  IF AtFullCapacity(acc.rosters[cid], sid, Class(cid).capacity)
  THEN [acc EXCEPT
          !.failedCount = @ + 1,
          !.failedRequests =
             Append(@, FailedRequest(classRequest, "Class is at full capacity"))]
  ELSE IF ~IsEnrolled(acc.rosters[cid], sid) /\ fault = "class"
  THEN ProcessingError(pushed, classRequest)
  ELSE IF ~IsEnrolled(acc.classes[sid], cid) /\ fault = "student"
  THEN ProcessingError(pushedClass, classRequest)
  ELSE IF fault = "request"
  THEN ProcessingError(studentSaved, classRequest)
  ELSE [studentSaved EXCEPT
          !.classRequests[requestId] =
             [classRequest EXCEPT
                !.status = "Approved",
                !.adminResponse =
                   AdminResponse(user,
                     NoteOr(adminNote, <<"Bulk approval by administrator">>))],
          !.notified = Append(@, Notification(Student(sid).userId,
                                              "class_request_approved", requestId, cid)),
          !.approvedCount = @ + 1]

RECURSIVE approveEachWithFaults(_, _, _, _, _)
approveEachWithFaults(acc, pendingRequests, user, adminNote, faults) ==
  IF pendingRequests = <<>> THEN acc
  ELSE approveEachWithFaults(
         approveOneWithFaults(acc, Head(pendingRequests), user, adminNote,
                              faults[Head(pendingRequests)]),
         Tail(pendingRequests), user, adminNote, faults)

\* approveAllPendingRequests, where faults names for each request the save()
\* that throws in its turn of the loop
approveAllPendingRequestsWithFaults(user, adminNote, faults) ==
  LET pendingRequests == PendingFrom(classRequests, 1) IN
  IF Len(pendingRequests) = 0
  THEN Return(Json("approveAll", 400, <<"No pending class requests found">>, Null))
  ELSE
  LET done == approveEachWithFaults(
                [classRequests |-> classRequests,
                 enrolledStudents |-> enrolledStudents,
                 enrolledClasses |-> enrolledClasses,
                 rosters |-> enrolledStudents,
                 classes |-> enrolledClasses,
                 notified |-> <<>>,
                 approvedCount |-> 0, failedCount |-> 0, failedRequests |-> <<>>],
                pendingRequests, user, adminNote, faults)
  IN
  Out(done.classRequests, done.enrolledStudents, done.enrolledClasses,
      done.notified,
      [op |-> "approveAll", code |-> 200,
       message |-> <<"Successfully approved class requests">>,
       approvedCount |-> done.approvedCount,
       failedCount |-> done.failedCount,
       failedRequests |-> done.failedRequests])

ChangeStatusWithFaults(requestId, status, user, adminNote, failing) ==
  /\ Handled(changeClassRequestStatusWithFaults(requestId, status, user,
                                                adminNote, failing))
  /\ UNCHANGED <<nextId, proc, registered, accounts>>

ApproveWithFaults(requestId, user, adminNote, failing) ==
  /\ Handled(approveClassRequestWithFaults(requestId, user, adminNote, failing))
  /\ UNCHANGED <<nextId, proc, registered, accounts>>

ApproveAllWithFaults(user, adminNote, faults) ==
  /\ Handled(approveAllPendingRequestsWithFaults(user, adminNote, faults))
  /\ UNCHANGED <<nextId, proc, registered, accounts>>

\* The admin call of the behaviours with faults
FaultCalls == {a \in AdminCalls : a.adminNote = ""}

\* A request is filed
Filed(userId, classId, reason) ==
  /\ createClassRequest(userId, classId, reason).response.code = 201
  /\ Create(userId, classId, reason)

\* Requests are filed, and the handlers that are told their faults decide
\* them
FaultNext ==
  \/ \E u \in UserIds, c \in ClassIds, reason \in Reasons : Filed(u, c, reason)
  \/ \E r \in RequestIds, s \in Statuses, a \in FaultCalls, failing \in SUBSET Saves :
       ChangeStatusWithFaults(r, s, a.user, a.adminNote, failing)
  \/ \E a \in FaultCalls, faults \in [RequestIds -> Saves \cup {NoFault}] :
       ApproveAllWithFaults(a.user, a.adminNote, faults)

FaultSpec == Init /\ [][FaultNext]_vars

\* Requests are filed, approved by the approve that is told its faults, and
\* changed by changeClassRequestStatus without faults
ApproveFaultNext ==
  \/ \E u \in UserIds, c \in ClassIds, reason \in Reasons : Filed(u, c, reason)
  \/ \E r \in RequestIds, a \in FaultCalls, failing \in SUBSET Saves :
       ApproveWithFaults(r, a.user, a.adminNote, failing)
  \/ \E r \in RequestIds, s \in Statuses, a \in FaultCalls :
       ChangeStatus(r, s, a.user, a.adminNote, TRUE)

ApproveFaultSpec == Init /\ [][ApproveFaultNext]_vars

RejectWithFaults(requestId, user, adminNote, failing) ==
  /\ Handled(rejectClassRequestWithFaults(requestId, user, adminNote, failing))
  /\ UNCHANGED <<nextId, proc, registered, accounts>>

AdminDeleteWithFaults(requestId, failing) ==
  /\ Handled(adminDeleteClassRequestWithFaults(requestId, failing))
  /\ UNCHANGED <<nextId, proc, registered, accounts>>

\* Whether the write of the request throws: its save(), its findByIdAndDelete
RequestFaults == {{}, {"request"}}

\* Requests are filed, and every admin handler is told whether its write of
\* the request throws; the writes of the classes and students succeed
NotifyNext ==
  \/ \E u \in UserIds, c \in ClassIds, reason \in Reasons : Filed(u, c, reason)
  \/ \E r \in RequestIds, a \in FaultCalls, failing \in RequestFaults :
       ApproveWithFaults(r, a.user, a.adminNote, failing)
  \/ \E r \in RequestIds, a \in FaultCalls, failing \in RequestFaults :
       RejectWithFaults(r, a.user, a.adminNote, failing)
  \/ \E r \in RequestIds, s \in Statuses, a \in FaultCalls,
        failing \in RequestFaults :
       ChangeStatusWithFaults(r, s, a.user, a.adminNote, failing)
  \/ \E a \in FaultCalls, faults \in [RequestIds -> {"request", NoFault}] :
       ApproveAllWithFaults(a.user, a.adminNote, faults)
  \/ \E r \in RequestIds, failing \in RequestFaults :
       AdminDeleteWithFaults(r, failing)

NotifySpec == Init /\ [][NotifyNext]_vars

----------------------------------------------------------------------------
\* Two admin handlers in flight. A step runs a handler from one await to its
\* next one: the load (findById/find with its populates), each save(), the
\* createNotification. What a handler tests between two awaits it tests on
\* the documents it loaded.

Set(p, fields) == proc' = [proc EXCEPT ![p] = fields]

\* res.json(...) / return res.status(...).json(...)
Finish(p, resp) == Set(p, [proc[p] EXCEPT !.pc = "done", !.response = resp])

\* The request the handler is at, and its loaded document
Current(p) == proc[p].pendingRequests[proc[p].i]
Loaded(p) == proc[p].loaded[Current(p)]

\* The response of approveAllPendingRequests
Summary(approvedCount, failedCount, failedRequests) ==
  [op |-> "approveAll", code |-> 200,
   message |-> <<"Successfully approved class requests">>,
   approvedCount |-> approvedCount, failedCount |-> failedCount,
   failedRequests |-> failedRequests]

\* The end of one turn of the loop of approveAllPendingRequests: the next
\* item, or the response after the last
NextItem(st) ==
  IF st.i = Len(st.pendingRequests)
  THEN [st EXCEPT !.pc = "done",
                  !.response = Summary(st.approvedCount, st.failedCount,
                                       st.failedRequests)]
  ELSE [st EXCEPT !.pc = "pushClass", !.i = @ + 1]

\* Students file their requests before the admins act
SetupCreate(userId, classId, reason) ==
  /\ \A p \in Procs : proc[p].pc = "idle"
  /\ createClassRequest(userId, classId, reason).response.code = 201
  /\ Create(userId, classId, reason)

\* approveClassRequest up to its first save()
LoadApprove(p, requestId) ==
  LET classRequest == FindById(requestId) IN
  /\ proc[p].pc = "idle"
  /\ IF classRequest = Null
     THEN Finish(p, Json("approve", 404, <<"Class request not found">>, Null))
     ELSE IF NotPending(classRequest)
     THEN Finish(p, Json("approve", 400, <<"Class request is not pending">>, Null))
     ELSE IF AtFullCapacity(enrolledStudents[classRequest.class],
                            classRequest.student,
                            Class(classRequest.class).capacity)
     THEN Finish(p, Json("approve", 400, <<"Class is at full capacity">>, Null))
     ELSE Set(p, [proc[p] EXCEPT
            !.pc = "saveRequest", !.op = "approve",
            !.pendingRequests = <<requestId>>,
            !.loaded[requestId] =
               [classRequest EXCEPT
                  !.status = "Approved",
                  !.adminResponse =
                     AdminResponse(AdminOf(p).user,
                       NoteOr(AdminOf(p).adminNote, <<"Request approved">>))],
            !.rosters[classRequest.class] = enrolledStudents[classRequest.class],
            !.classes[classRequest.student] = enrolledClasses[classRequest.student]])
  /\ UNCHANGED <<accounts, registered, classRequests, nextId, enrolledStudents, enrolledClasses,
                 notified, response>>

\* changeClassRequestStatus up to its first save()
LoadChangeStatus(p, requestId, status) ==
  LET classRequest == FindById(requestId) IN
  /\ proc[p].pc = "idle"
  /\ IF classRequest = Null
     THEN Finish(p, Json("changeStatus", 404, <<"Class request not found">>, Null))
     ELSE
     LET oldStatus == classRequest.status
         sid == classRequest.student
         cid == classRequest.class
     IN
     IF /\ Adding(oldStatus, status)
        /\ AtFullCapacity(enrolledStudents[cid], sid, Class(cid).capacity)
     THEN Finish(p, Json("changeStatus", 400, <<"Class is at full capacity">>, Null))
     ELSE Set(p, [proc[p] EXCEPT
            !.pc = IF Removing(oldStatus, status) THEN "setClass"
                   ELSE IF Adding(oldStatus, status) THEN "pushClass"
                   ELSE "saveRequest",
            !.op = "changeStatus", !.status = status, !.oldStatus = oldStatus,
            !.pendingRequests = <<requestId>>,
            !.loaded[requestId] = classRequest,
            !.rosters[cid] = enrolledStudents[cid],
            !.classes[sid] = enrolledClasses[sid]])
  /\ UNCHANGED <<accounts, registered, classRequests, nextId, enrolledStudents, enrolledClasses,
                 notified, response>>

\* approveAllPendingRequests up to its loop
LoadApproveAll(p) ==
  LET pendingRequests == PendingFrom(classRequests, 1)
      found == {pendingRequests[k] : k \in DOMAIN pendingRequests}
  IN
  /\ proc[p].pc = "idle"
  /\ IF Len(pendingRequests) = 0
     THEN Finish(p, Json("approveAll", 400, <<"No pending class requests found">>, Null))
     ELSE Set(p, [proc[p] EXCEPT
            !.pc = "pushClass", !.op = "approveAll",
            !.pendingRequests = pendingRequests,
            !.loaded = [r \in RequestIds |->
                          IF r \in found THEN classRequests[r] ELSE Null],
            !.rosters = [c \in ClassIds |->
                           IF \E r \in found : classRequests[r].class = c
                           THEN enrolledStudents[c] ELSE <<>>],
            !.classes = [s \in StudentIds |->
                           IF \E r \in found : classRequests[r].student = s
                           THEN enrolledClasses[s] ELSE <<>>]])
  /\ UNCHANGED <<accounts, registered, classRequests, nextId, enrolledStudents, enrolledClasses,
                 notified, response>>

\* enrolledStudents.push(student._id); await class.save(), when the loaded
\* roster lacks the student: the pushed id is appended to the stored array.
\* In the loop of approveAllPendingRequests the capacity test comes first.
PushClass(p) ==
  LET st == proc[p]
      sid == Loaded(p).student
      cid == Loaded(p).class
  IN
  /\ st.pc = "pushClass"
  /\ IF /\ st.op = "approveAll"
        /\ AtFullCapacity(st.rosters[cid], sid, Class(cid).capacity)
     THEN /\ Set(p, NextItem([st EXCEPT
                   !.failedCount = @ + 1,
                   !.failedRequests =
                      Append(@, FailedRequest(Loaded(p), "Class is at full capacity"))]))
          /\ UNCHANGED enrolledStudents
     ELSE /\ Set(p, [st EXCEPT !.pc = "pushStudent",
                               !.rosters[cid] = PushIfAbsent(@, sid)])
          /\ enrolledStudents' =
               IF IsEnrolled(st.rosters[cid], sid) THEN enrolledStudents
               ELSE [enrolledStudents EXCEPT ![cid] = Append(@, sid)]
  /\ UNCHANGED <<accounts, registered, classRequests, nextId, enrolledClasses, notified, response>>

\* enrolledClasses.push(class._id); await student.save()
PushStudent(p) ==
  LET st == proc[p]
      sid == Loaded(p).student
      cid == Loaded(p).class
  IN
  /\ st.pc = "pushStudent"
  /\ Set(p, [st EXCEPT !.pc = IF st.op = "approve" THEN "notify" ELSE "saveRequest",
                       !.classes[sid] = PushIfAbsent(@, cid)])
  /\ enrolledClasses' =
       IF IsEnrolled(st.classes[sid], cid) THEN enrolledClasses
       ELSE [enrolledClasses EXCEPT ![sid] = Append(@, cid)]
  /\ UNCHANGED <<accounts, registered, classRequests, nextId, enrolledStudents, notified, response>>

\* enrolledStudents = enrolledStudents.filter(...); await class.save(), when
\* the length changed: the filtered array replaces the stored one
SetClass(p) ==
  LET st == proc[p]
      sid == Loaded(p).student
      cid == Loaded(p).class
      filtered == FilterOut(st.rosters[cid], sid)
  IN
  /\ st.pc = "setClass"
  /\ Set(p, [st EXCEPT !.pc = "setStudent", !.rosters[cid] = filtered])
  /\ enrolledStudents' =
       IF Len(filtered) # Len(st.rosters[cid])
       THEN [enrolledStudents EXCEPT ![cid] = filtered]
       ELSE enrolledStudents
  /\ UNCHANGED <<accounts, registered, classRequests, nextId, enrolledClasses, notified, response>>

\* enrolledClasses = enrolledClasses.filter(...); await student.save()
SetStudent(p) ==
  LET st == proc[p]
      sid == Loaded(p).student
      cid == Loaded(p).class
      filtered == FilterOut(st.classes[sid], cid)
  IN
  /\ st.pc = "setStudent"
  /\ Set(p, [st EXCEPT !.pc = "saveRequest", !.classes[sid] = filtered])
  /\ enrolledClasses' =
       IF Len(filtered) # Len(st.classes[sid])
       THEN [enrolledClasses EXCEPT ![sid] = filtered]
       ELSE enrolledClasses
  /\ UNCHANGED <<accounts, registered, classRequests, nextId, enrolledStudents, notified, response>>

\* classRequest.status = ...; classRequest.adminResponse = ...;
\* await classRequest.save(): the two fields are stored
SaveRequest(p) ==
  LET st == proc[p]
      requestId == Current(p)
      doc == IF st.op = "approve" THEN Loaded(p)
             ELSE IF st.op = "changeStatus"
             THEN [Loaded(p) EXCEPT
                     !.status = st.status,
                     !.adminResponse =
                        AdminResponse(AdminOf(p).user,
                          NoteOr(AdminOf(p).adminNote,
                                 <<"Status changed from", st.oldStatus, "to", st.status>>))]
             ELSE [Loaded(p) EXCEPT
                     !.status = "Approved",
                     !.adminResponse =
                        AdminResponse(AdminOf(p).user,
                          NoteOr(AdminOf(p).adminNote,
                                 <<"Bulk approval by administrator">>))]
  IN
  /\ st.pc = "saveRequest"
  /\ IF classRequests[requestId] = Null
     \* save() of a document that is no longer stored throws
     \* (DocumentNotFoundError): the catch of the loop counts the item, the
     \* outer catch of the other handlers answers 500
     THEN /\ Set(p, IF st.op = "approveAll"
                    THEN NextItem([st EXCEPT
                           !.failedCount = @ + 1,
                           !.failedRequests =
                              Append(@, FailedRequest(Loaded(p), "Processing error"))])
                    ELSE [st EXCEPT !.pc = "done",
                            !.response = Json(st.op, 500, <<"Server error">>, Null)])
          /\ UNCHANGED classRequests
     ELSE /\ Set(p, [st EXCEPT
                   !.pc = IF st.op = "approve" THEN "pushClass" ELSE "notify",
                   !.loaded[requestId] = doc])
          /\ classRequests' =
               [classRequests EXCEPT ![requestId] =
                  [@ EXCEPT !.status = doc.status,
                            !.adminResponse = doc.adminResponse]]
  /\ UNCHANGED <<accounts, registered, nextId, enrolledStudents, enrolledClasses,
                 notified, response>>

\* await Notification.createNotification(...), then the response or the
\* next turn of the loop
Notify(p) ==
  LET st == proc[p]
      requestId == Current(p)
      sid == Loaded(p).student
      cid == Loaded(p).class
  IN
  /\ st.pc = "notify"
  /\ notified' =
       Append(notified,
              Notification(Student(sid).userId,
                           IF st.op = "changeStatus"
                           THEN "class_request_status_change"
                           ELSE "class_request_approved",
                           requestId, cid))
  /\ Set(p, IF st.op = "approve"
            THEN [st EXCEPT !.pc = "done",
                    !.response = Json("approve", 200,
                                      <<"Class request approved successfully">>,
                                      [id |-> requestId])]
            ELSE IF st.op = "changeStatus"
            THEN [st EXCEPT !.pc = "done",
                    !.response = Json("changeStatus", 200,
                                      <<"Class request status changed from",
                                        st.oldStatus, "to", st.status, "successfully">>,
                                      [id |-> requestId])]
            ELSE NextItem([st EXCEPT !.approvedCount = @ + 1]))
  /\ UNCHANGED <<accounts, registered, classRequests, nextId, enrolledStudents, enrolledClasses, response>>

ConcNext ==
  \/ \E u \in UserIds, c \in ClassIds, reason \in Reasons : SetupCreate(u, c, reason)
  \/ \E p \in Procs, r \in RequestIds : LoadApprove(p, r)
  \/ \E p \in Procs, r \in RequestIds, s \in Statuses : LoadChangeStatus(p, r, s)
  \/ \E p \in Procs : LoadApproveAll(p)
  \/ \E p \in Procs : PushClass(p)
  \/ \E p \in Procs : PushStudent(p)
  \/ \E p \in Procs : SetClass(p)
  \/ \E p \in Procs : SetStudent(p)
  \/ \E p \in Procs : SaveRequest(p)
  \/ \E p \in Procs : Notify(p)

ConcSpec == Init /\ [][ConcNext]_vars

----------------------------------------------------------------------------
\* Two handlers in flight, the students' create and delete and the admins'
\* reject among them: the steps of ConcSpec and the steps below

\* createClassRequest up to ClassRequest.findOne: Student.findOne and
\* Class.findById with the tests on what they loaded
CreateFindStudent(p, userId, classId, reason) ==
  LET student == StudentFindOne(userId) IN
  /\ proc[p].pc = "idle"
  /\ IF student = NoId
     THEN Finish(p, Json("create", 404, <<"Student profile not found">>, Null))
     ELSE IF Student(student).status # "Approved"
     THEN Finish(p, Json("create", 400,
            <<"Student registration must be approved before requesting class enrollment">>, Null))
     ELSE IF classId \notin ClassIds
     THEN Finish(p, Json("create", 404, <<"Class not found">>, Null))
     ELSE IF ~Class(classId).isActive \/ Class(classId).type # "Normal"
     THEN Finish(p, Json("create", 400, <<"Class is not available for enrollment">>, Null))
     ELSE IF IsEnrolled(enrolledClasses[student], classId)
     THEN Finish(p, Json("create", 400, <<"Already enrolled in this class">>, Null))
     ELSE Set(p, [proc[p] EXCEPT
            !.pc = "findExisting", !.op = "create",
            !.draft = [student |-> student, class |-> classId, reason |-> reason,
                       status |-> "Pending", adminResponse |-> Null]])
  /\ UNCHANGED <<accounts, registered, classRequests, nextId, enrolledStudents, enrolledClasses,
                 notified, response>>

\* await ClassRequest.findOne({ student, class, status: 'Pending' })
CreateFindExisting(p) ==
  LET st == proc[p] IN
  /\ st.pc = "findExisting"
  /\ IF ExistingRequest(st.draft.student, st.draft.class)
     THEN Finish(p, Json("create", 400,
            <<"You already have a pending request for this class">>, Null))
     ELSE Set(p, [st EXCEPT !.pc = "saveNew"])
  /\ UNCHANGED <<accounts, registered, classRequests, nextId, enrolledStudents, enrolledClasses,
                 notified, response>>

\* await classRequest.save() of the new document, then the response
CreateSave(p) ==
  LET st == proc[p] IN
  /\ st.pc = "saveNew"
  /\ nextId <= MaxRequests
  /\ classRequests' = [classRequests EXCEPT ![nextId] = st.draft]
  /\ nextId' = nextId + 1
  /\ Finish(p, Json("create", 201,
                    <<"Class enrollment request submitted successfully">>,
                    [id |-> nextId]))
  /\ UNCHANGED <<accounts, registered, enrolledStudents, enrolledClasses, notified, response>>

\* rejectClassRequest up to its save()
LoadReject(p, requestId) ==
  LET classRequest == FindById(requestId) IN
  /\ proc[p].pc = "idle"
  /\ IF classRequest = Null
     THEN Finish(p, Json("reject", 404, <<"Class request not found">>, Null))
     ELSE IF NotPending(classRequest)
     THEN Finish(p, Json("reject", 400, <<"Class request is not pending">>, Null))
     ELSE Set(p, [proc[p] EXCEPT
            !.pc = "saveRejected", !.op = "reject",
            !.pendingRequests = <<requestId>>,
            !.loaded[requestId] =
               [classRequest EXCEPT
                  !.status = "Rejected",
                  !.adminResponse =
                     AdminResponse(AdminOf(p).user,
                       NoteOr(AdminOf(p).adminNote, <<"Request rejected">>))]])
  /\ UNCHANGED <<accounts, registered, classRequests, nextId, enrolledStudents, enrolledClasses,
                 notified, response>>

\* await classRequest.save() of rejectClassRequest
SaveRejected(p) ==
  LET st == proc[p]
      requestId == Current(p)
  IN
  /\ st.pc = "saveRejected"
  /\ IF classRequests[requestId] = Null
     THEN /\ Finish(p, Json("reject", 500, <<"Server error">>, Null))
          /\ UNCHANGED classRequests
     ELSE /\ Set(p, [st EXCEPT !.pc = "notifyRejected"])
          /\ classRequests' =
               [classRequests EXCEPT ![requestId] =
                  [@ EXCEPT !.status = Loaded(p).status,
                            !.adminResponse = Loaded(p).adminResponse]]
  /\ UNCHANGED <<accounts, registered, nextId, enrolledStudents, enrolledClasses,
                 notified, response>>

\* await Notification.createNotification(...) of rejectClassRequest, then
\* the response
NotifyRejected(p) ==
  LET st == proc[p] IN
  /\ st.pc = "notifyRejected"
  /\ notified' =
       Append(notified,
              Notification(Student(Loaded(p).student).userId,
                           "class_request_rejected", Current(p), Loaded(p).class))
  /\ Finish(p, Json("reject", 200, <<"Class request rejected">>,
                    [id |-> Current(p)]))
  /\ UNCHANGED <<accounts, registered, classRequests, nextId, enrolledStudents, enrolledClasses,
                 response>>

\* deleteClassRequest up to findByIdAndDelete
LoadDelete(p, userId, requestId) ==
  LET student == StudentFindOne(userId)
      classRequest == FindById(requestId)
  IN
  /\ proc[p].pc = "idle"
  /\ IF student = NoId
     THEN Finish(p, Json("delete", 404, <<"Student profile not found">>, Null))
     ELSE IF classRequest = Null
     THEN Finish(p, Json("delete", 404, <<"Class request not found">>, Null))
     ELSE IF classRequest.student # student
     THEN Finish(p, Json("delete", 403, <<"You can only delete your own class requests">>, Null))
     ELSE IF classRequest.status # "Pending"
     THEN Finish(p, Json("delete", 400, <<"You can only delete pending class requests">>, Null))
     ELSE Set(p, [proc[p] EXCEPT
            !.pc = "deleteRequest", !.op = "delete",
            !.pendingRequests = <<requestId>>,
            !.loaded[requestId] = classRequest])
  /\ UNCHANGED <<accounts, registered, classRequests, nextId, enrolledStudents, enrolledClasses,
                 notified, response>>

\* await ClassRequest.findByIdAndDelete(requestId), then the response
DeleteRequest(p) ==
  /\ proc[p].pc = "deleteRequest"
  /\ classRequests' = [classRequests EXCEPT ![Current(p)] = Null]
  /\ Finish(p, Json("delete", 200, <<"Class request deleted successfully">>, Null))
  /\ UNCHANGED <<accounts, registered, nextId, enrolledStudents, enrolledClasses,
                 notified, response>>

RaceNext ==
  \/ ConcNext
  \/ \E p \in Procs, u \in UserIds, c \in ClassIds \cup {NoSuchClass},
        reason \in Reasons : CreateFindStudent(p, u, c, reason)
  \/ \E p \in Procs : CreateFindExisting(p)
  \/ \E p \in Procs : CreateSave(p)
  \/ \E p \in Procs, r \in RequestIds : LoadReject(p, r)
  \/ \E p \in Procs : SaveRejected(p)
  \/ \E p \in Procs : NotifyRejected(p)
  \/ \E p \in Procs, u \in UserIds, r \in RequestIds : LoadDelete(p, u, r)
  \/ \E p \in Procs : DeleteRequest(p)

RaceSpec == Init /\ [][RaceNext]_vars

----------------------------------------------------------------------------
\* The students' own handlers (src/test-cors.html) and the request handlers,
\* one at a time, from before any student registered. The admin's approval
\* of a registration is not in the sources: Student(sid).status is the
\* status the student has when the request handlers are called. The admin
\* calls without a note, and changeClassRequestStatus to reopen a request.

\* req.body of registerStudent and updateOwnProfile: with and without the
\* field enrolledClasses
Bodies == { [school |-> "school"],
            [school |-> "school", enrolledClasses |-> <<>>],
            [school |-> "school", enrolledClasses |-> <<"c1">>] }

\* enrolledClasses || []
EnrolledClassesOr(body) ==
  IF "enrolledClasses" \in DOMAIN body THEN body.enrolledClasses ELSE <<>>

registerStudent(userId, body) ==
  IF userId \in registered
  THEN Return(Json("register", 400, <<"You are already registered as a student">>, Null))
  ELSE Out(classRequests, enrolledStudents,
           [enrolledClasses EXCEPT ![StudentFindOne(userId)] = EnrolledClassesOr(body)],
           <<>>,
           Json("register", 201,
                <<"Student registration submitted successfully. Waiting for admin approval.">>,
                Null))

\* The fields updateOwnProfile deletes from req.body
Protected == {"_id", "studentId", "userId", "paymentRole", "paymentStatus",
              "freeClasses", "enrolledClasses", "status", "createdAt", "email"}

\* Student.findOneAndUpdate({ userId }, updateData)
updateOwnProfile(userId, body) ==
  LET updateData == [k \in DOMAIN body \ Protected |-> body[k]] IN
  IF userId \notin registered
  THEN Return(Json("updateProfile", 404, <<"Student profile not found">>, Null))
  ELSE Out(classRequests, enrolledStudents,
           IF "enrolledClasses" \in DOMAIN updateData
           THEN [enrolledClasses EXCEPT ![StudentFindOne(userId)] =
                   updateData["enrolledClasses"]]
           ELSE enrolledClasses,
           <<>>,
           Json("updateProfile", 200, <<"Profile updated successfully">>, Null))

RegisterStudent(userId, body) ==
  /\ StudentFindOne(userId) # NoId
  /\ Handled(registerStudent(userId, body))
  /\ registered' = registered \cup {userId}
  /\ UNCHANGED <<nextId, proc, accounts>>

UpdateOwnProfile(userId, body) ==
  /\ Handled(updateOwnProfile(userId, body))
  /\ UNCHANGED <<nextId, proc, registered, accounts>>

RegisterInit ==
  /\ classRequests = [r \in RequestIds |-> Null]
  /\ nextId = 1
  /\ enrolledStudents = [c \in ClassIds |-> <<>>]
  /\ enrolledClasses = [s \in StudentIds |-> <<>>]
  /\ notified = <<>>
  /\ response = Json("none", 0, <<>>, Null)
  /\ proc = [p \in Procs |-> Idle]
  /\ registered = {}
  /\ accounts = NoCodes

RegisterNext ==
  \/ \E u \in UserIds, body \in Bodies : RegisterStudent(u, body)
  \/ \E u \in UserIds, body \in Bodies : UpdateOwnProfile(u, body)
  \/ \E u \in registered, c \in ClassIds, reason \in Reasons : Filed(u, c, reason)
  \/ \E r \in RequestIds, a \in FaultCalls : Approve(r, a.user, a.adminNote, TRUE)
  \/ \E r \in RequestIds, a \in FaultCalls : Reject(r, a.user, a.adminNote, TRUE)
  \/ \E r \in RequestIds, a \in FaultCalls :
       ChangeStatus(r, "Pending", a.user, a.adminNote, TRUE)
  \/ \E a \in FaultCalls : ApproveAll(a.user, a.adminNote, {})
  \/ \E u \in registered, r \in RequestIds : Delete(u, r)
  \/ \E r \in RequestIds : AdminDelete(r, TRUE)

RegisterSpec == RegisterInit /\ [][RegisterNext]_vars

----------------------------------------------------------------------------
\* The password reset of the student controller (src/test-cors.html), one
\* handler at a time. The User collection has the student u1 with the email
\* a@x.lk and an admin; the OTP model (createOTP, verifyOTP, the expiry of
\* its documents) is not in the sources.

\* req.body.email, req.body.otp, req.body.newPassword
Emails == {"a@x.lk", "A@x.lk", "b@x.lk", "adm@x.lk"}
Codes == {"111", "222"}
Passwords == {"new1", "new2"}

\* email.toLowerCase()
ToLowerCase(email) == IF email = "A@x.lk" THEN "a@x.lk" ELSE email

\* User.findOne({ email: email.toLowerCase() })
UserFindOne(email) ==
  CASE ToLowerCase(email) = "a@x.lk" -> [_id |-> "u1", role |-> "student"]
    [] ToLowerCase(email) = "adm@x.lk" -> [_id |-> "admin1", role |-> "admin"]
    [] OTHER -> Null

\* An OTP document
Otp(email, otp, verified) ==
  [email |-> email, otp |-> otp, purpose |-> "password_reset", verified |-> verified]

\* OTP.createOTP(email, 'password_reset') that generated otpCode: the new
\* document replaces the ones of the email and purpose
createOTP(email, otpCode) ==
  {o \in accounts.otps : o.email # email} \cup {Otp(email, otpCode, FALSE)}

\* OTP.verifyOTP(email, otp, 'password_reset'): the document of the email
\* and code is marked verified
verifyOTP(email, otp) ==
  IF \E o \in accounts.otps : o.email = email /\ o.otp = otp
  THEN [success |-> TRUE,
        otps |-> {IF o.email = email /\ o.otp = otp THEN [o EXCEPT !.verified = TRUE]
                  ELSE o : o \in accounts.otps}]
  ELSE [success |-> FALSE, otps |-> accounts.otps]

\* What a handler of the password reset leaves behind
Account(otps, studentPassword, everVerified, resp) ==
  [accounts |-> [otps |-> otps, studentPassword |-> studentPassword,
                 everVerified |-> everVerified],
   response |-> resp]

AccountReturn(resp) ==
  Account(accounts.otps, accounts.studentPassword, accounts.everVerified, resp)

sendPasswordResetOTP(email, otpCode, emailOk) ==
  LET user == UserFindOne(email) IN
  IF user = Null
  THEN AccountReturn(Json("sendOTP", 404, <<"No account found with this email address">>, Null))
  ELSE IF user.role # "student"
  THEN AccountReturn(Json("sendOTP", 400,
         <<"This email is not associated with a student account">>, Null))
  ELSE IF StudentFindOne(user._id) = NoId
  THEN AccountReturn(Json("sendOTP", 404, <<"Student record not found">>, Null))
  ELSE Account(createOTP(email, otpCode), accounts.studentPassword,
               accounts.everVerified,
               IF emailOk
               THEN Json("sendOTP", 200, <<"Password reset code sent to your email">>, Null)
               ELSE Json("sendOTP", 500, <<"Failed to send password reset email">>, Null))

verifyPasswordResetOTP(email, otp) ==
  LET verificationResult == verifyOTP(email, otp) IN
  IF ~verificationResult.success
  THEN AccountReturn(Json("verifyOTP", 400, <<"verificationResult.message">>, Null))
  ELSE Account(verificationResult.otps, accounts.studentPassword,
               accounts.everVerified \cup {<<email, otp>>},
               Json("verifyOTP", 200,
                    <<"OTP verified successfully. You can now reset your password.">>, Null))

\* The reset that takes a code that was sent, verified or not
resetStudentPasswordOfAnyCode(email, otp, newPassword) ==
  LET otpRecord == \E o \in accounts.otps :
                     o.email = email /\ o.otp = otp /\ o.purpose = "password_reset"
      user == UserFindOne(email)
  IN
  IF ~otpRecord
  THEN AccountReturn(Json("resetPassword", 400,
         <<"Invalid or expired OTP. Please request a new password reset.">>, Null))
  ELSE IF user = Null
  THEN AccountReturn(Json("resetPassword", 404, <<"User not found">>, Null))
  ELSE IF StudentFindOne(user._id) = NoId
  THEN AccountReturn(Json("resetPassword", 404, <<"Student record not found">>, Null))
  ELSE Account({o \in accounts.otps : o.email # email},
               [user |-> <<"hash", newPassword>>, student |-> <<"hash", newPassword>>],
               accounts.everVerified,
               Json("resetPassword", 200,
                    <<"Password reset successfully. You can now login with your new password.">>,
                    Null))

resetStudentPassword(email, otp, newPassword) ==
  LET \* OTP.findOne({ email, otp, purpose: 'password_reset', verified: true })
      otpRecord == \E o \in accounts.otps :
                     /\ o.email = email /\ o.otp = otp
                     /\ o.purpose = "password_reset" /\ o.verified
      user == UserFindOne(email)
  IN
  IF ~otpRecord
  THEN AccountReturn(Json("resetPassword", 400,
         <<"Invalid or expired OTP. Please request a new password reset.">>, Null))
  ELSE IF user = Null
  THEN AccountReturn(Json("resetPassword", 404, <<"User not found">>, Null))
  ELSE IF StudentFindOne(user._id) = NoId
  THEN AccountReturn(Json("resetPassword", 404, <<"Student record not found">>, Null))
  \* user.save() and student.save() hash the password; then
  \* OTP.deleteMany({ email, purpose: 'password_reset' })
  ELSE Account({o \in accounts.otps : o.email # email},
               [user |-> <<"hash", newPassword>>, student |-> <<"hash", newPassword>>],
               accounts.everVerified,
               Json("resetPassword", 200,
                    <<"Password reset successfully. You can now login with your new password.">>,
                    Null))

\* The handler's writes and its response
AccountHandled(out) ==
  /\ accounts' = out.accounts
  /\ response' = out.response

SendPasswordResetOTP(email, otpCode, emailOk) ==
  /\ AccountHandled(sendPasswordResetOTP(email, otpCode, emailOk))
  /\ UNCHANGED <<classRequests, nextId, enrolledStudents, enrolledClasses,
                 notified, proc, registered>>

VerifyPasswordResetOTP(email, otp) ==
  /\ AccountHandled(verifyPasswordResetOTP(email, otp))
  /\ UNCHANGED <<classRequests, nextId, enrolledStudents, enrolledClasses,
                 notified, proc, registered>>

ResetStudentPassword(email, otp, newPassword) ==
  /\ AccountHandled(resetStudentPassword(email, otp, newPassword))
  /\ UNCHANGED <<classRequests, nextId, enrolledStudents, enrolledClasses,
                 notified, proc, registered>>

\* An OTP document expires and is removed
OtpExpires(o) ==
  /\ o \in accounts.otps
  /\ accounts' = [accounts EXCEPT !.otps = @ \ {o}]
  /\ UNCHANGED <<classRequests, nextId, enrolledStudents, enrolledClasses,
                 notified, response, proc, registered>>

PasswordNext ==
  \/ \E email \in Emails, otpCode \in Codes, emailOk \in BOOLEAN :
       SendPasswordResetOTP(email, otpCode, emailOk)
  \/ \E email \in Emails, otp \in Codes : VerifyPasswordResetOTP(email, otp)
  \/ \E email \in Emails, otp \in Codes, newPassword \in Passwords :
       ResetStudentPassword(email, otp, newPassword)
  \/ \E o \in accounts.otps : OtpExpires(o)

PasswordSpec == Init /\ [][PasswordNext]_vars

----------------------------------------------------------------------------
\* One handler at a time, and then three calls in a row on one request:
\* approveClassRequest, changeClassRequestStatus to Rejected,
\* changeClassRequestStatus to Approved. proc["p1"] keeps the place in the
\* three calls, the request, and the membership lists as the approve left
\* them.

Trip == proc["p1"]

TripApprove(requestId, user, adminNote, notificationOk) ==
  LET out == approveClassRequest(requestId, user, adminNote, notificationOk) IN
  /\ Trip.pc = "idle"
  /\ out.response.code = 200
  /\ Handled(out)
  /\ Set("p1", [Trip EXCEPT !.pc = "approved", !.op = "approve",
                            !.pendingRequests = <<requestId>>,
                            !.rosters = out.enrolledStudents,
                            !.classes = out.enrolledClasses])
  /\ UNCHANGED <<nextId, registered, accounts>>

TripReject(user, adminNote, notificationOk) ==
  /\ Trip.pc = "approved"
  /\ Handled(changeClassRequestStatus(Trip.pendingRequests[1], "Rejected",
                                      user, adminNote, notificationOk))
  /\ Set("p1", [Trip EXCEPT !.pc = "rejected", !.op = "changeStatus"])
  /\ UNCHANGED <<nextId, registered, accounts>>

TripReapprove(user, adminNote, notificationOk) ==
  /\ Trip.pc = "rejected"
  /\ Handled(changeClassRequestStatus(Trip.pendingRequests[1], "Approved",
                                      user, adminNote, notificationOk))
  /\ Set("p1", [Trip EXCEPT !.pc = "done"])
  /\ UNCHANGED <<nextId, registered, accounts>>

\* The calls before the three
BeforeTrip ==
  /\ Trip.pc = "idle"
  /\ \/ \E u \in UserIds, c \in ClassIds, reason \in Reasons : Filed(u, c, reason)
     \/ \E r \in RequestIds, a \in FaultCalls : Approve(r, a.user, a.adminNote, TRUE)
     \/ \E r \in RequestIds, a \in FaultCalls : Reject(r, a.user, a.adminNote, TRUE)
     \/ \E r \in RequestIds, s \in Statuses, a \in FaultCalls :
          ChangeStatus(r, s, a.user, a.adminNote, TRUE)
     \/ \E a \in FaultCalls : ApproveAll(a.user, a.adminNote, {})
     \/ \E u \in UserIds, r \in RequestIds : Delete(u, r)
     \/ \E r \in RequestIds : AdminDelete(r, TRUE)

RoundTripNext ==
  \/ BeforeTrip
  \/ \E r \in RequestIds, a \in AdminCalls, ok \in BOOLEAN :
       TripApprove(r, a.user, a.adminNote, ok)
  \/ \E a \in AdminCalls, ok \in BOOLEAN : TripReject(a.user, a.adminNote, ok)
  \/ \E a \in AdminCalls, ok \in BOOLEAN : TripReapprove(a.user, a.adminNote, ok)

RoundTripSpec == Init /\ [][RoundTripNext]_vars

----------------------------------------------------------------------------
\* Properties of the handlers run one at a time (Spec). A property of one
\* handler is stated of the steps that handler takes: the steps that satisfy
\* its action, which are among those whose response carries its name.

HasRequest(r) == classRequests[r] # Null
StudentOf(r) == classRequests[r].student
ClassOf(r) == classRequests[r].class
StatusOf(r) == classRequests[r].status
NoDuplicates(list) ==
  \A i, j \in DOMAIN list : i # j => list[i] # list[j]
\* The entries of list other than x, in their order
Others(list, x) == SelectSeq(list, LAMBDA y : y # x)
MembershipUnchanged ==
  /\ enrolledStudents' = enrolledStudents
  /\ enrolledClasses' = enrolledClasses
NothingWritten ==
  /\ classRequests' = classRequests
  /\ MembershipUnchanged
  /\ notified' = <<>>

\* C1: with the handlers run one at a time, no class ever has more enrolled
\* students than its capacity, a bulk approval of several Pending requests
\* for one class included.
C1_CapacityRespected ==
  \A c \in ClassIds : Len(enrolledStudents[c]) <= Class(c).capacity

\* C1 witness: a bulk approval has approved one request for class c1 and
\* refused another for capacity, and c1 is exactly full.
C1_BulkFillsClass ==
  /\ response.op = "approveAll"
  /\ response.code = 200
  /\ response.approvedCount >= 1
  /\ response.failedCount >= 1
  /\ response.failedRequests[1].className = "c1"
  /\ response.failedRequests[1].reason = "Class is at full capacity"
  /\ Len(enrolledStudents["c1"]) = Class("c1").capacity
  /\ \E r \in RequestIds :
       /\ HasRequest(r) /\ ClassOf(r) = "c1" /\ StatusOf(r) = "Approved"
       /\ classRequests[r].adminResponse.actionNote
            = <<"Bulk approval by administrator">>

\* C3 (as claimed): every Approved request has its student in the class's
\* enrolledStudents and its class in the student's enrolledClasses.
C3_ApprovedHasMembership ==
  \A r \in RequestIds :
    (HasRequest(r) /\ StatusOf(r) = "Approved") =>
      /\ IsEnrolled(enrolledStudents[ClassOf(r)], StudentOf(r))
      /\ IsEnrolled(enrolledClasses[StudentOf(r)], ClassOf(r))

C5_AtMostOnePending ==
  \A r1, r2 \in RequestIds :
    (/\ r1 # r2
     /\ HasRequest(r1) /\ HasRequest(r2)
     /\ StatusOf(r1) = "Pending" /\ StatusOf(r2) = "Pending"
     /\ StudentOf(r1) = StudentOf(r2))
    => ClassOf(r1) # ClassOf(r2)

\* The outcome of a handler: its response and what it persisted
SameOutcome(out) ==
  /\ response' = out.response
  /\ classRequests' = out.classRequests
  /\ enrolledStudents' = out.enrolledStudents
  /\ enrolledClasses' = out.enrolledClasses

\* C6 (as claimed): when the notification dispatch fails, approve, reject,
\* changeStatus, approveAllPending and adminDelete answer and persist what
\* they do when it succeeds, and never answer with an error.
C6_NotificationFailureSwallowed ==
  [][/\ \A r \in RequestIds, a \in AdminCalls :
          /\ Approve(r, a.user, a.adminNote, FALSE)
               => SameOutcome(approveClassRequest(r, a.user, a.adminNote, TRUE))
          /\ Reject(r, a.user, a.adminNote, FALSE)
               => SameOutcome(rejectClassRequest(r, a.user, a.adminNote, TRUE))
          /\ \A s \in Statuses :
               ChangeStatus(r, s, a.user, a.adminNote, FALSE)
                 => SameOutcome(changeClassRequestStatus(r, s, a.user,
                                                         a.adminNote, TRUE))
          /\ AdminDelete(r, FALSE)
               => SameOutcome(adminDeleteClassRequest(r, TRUE))
     /\ \A a \in AdminCalls, fails \in SUBSET RequestIds :
          ApproveAll(a.user, a.adminNote, fails)
            => SameOutcome(approveAllPendingRequests(a.user, a.adminNote, {}))
    ]_vars

\* The state approve refuses for capacity: request r is Pending, its student
\* is not on the roster and the roster is full
FullFor(r) ==
  /\ ~IsEnrolled(enrolledStudents[ClassOf(r)], StudentOf(r))
  /\ Len(enrolledStudents[ClassOf(r)]) >= Class(ClassOf(r)).capacity

\* C7: approve of a Pending request whose student is not enrolled in a full
\* class answers 400 "Class is at full capacity" and writes nothing: the
\* request, both membership lists stay as they were, no notification.
C7_ApproveFullClassRefused ==
  [][response'.op = "approve" =>
     \A r \in RequestIds, a \in AdminCalls, ok \in BOOLEAN :
       (/\ HasRequest(r) /\ StatusOf(r) = "Pending" /\ FullFor(r)
        /\ Approve(r, a.user, a.adminNote, ok))
       => /\ response'.code = 400
          /\ response'.message = <<"Class is at full capacity">>
          /\ NothingWritten
          /\ classRequests'[r].status = "Pending"]_vars

\* C7 witness: capacity 1, two students' requests, the first Approved and
\* enrolled, the approve of the second just refused; it is still Pending
\* with no adminResponse.
C7_SecondApproveRefused ==
  /\ response.op = "approve"
  /\ response.message = <<"Class is at full capacity">>
  /\ notified = <<>>
  /\ \E r1, r2 \in RequestIds :
       /\ HasRequest(r1) /\ HasRequest(r2)
       /\ ClassOf(r1) = "c1" /\ ClassOf(r2) = "c1"
       /\ StudentOf(r1) # StudentOf(r2)
       /\ StatusOf(r1) = "Approved"
       /\ enrolledStudents["c1"] = <<StudentOf(r1)>>
       /\ StatusOf(r2) = "Pending"
       /\ classRequests[r2].adminResponse = Null
       /\ ~IsEnrolled(enrolledClasses[StudentOf(r2)], "c1")

\* C8: approve and reject answer 404 for a missing request and 400 "not
\* pending" for an Approved or Rejected one, writing nothing in both cases;
\* they answer 200 only for a request that was Pending.
C8_OnlyPendingDecided ==
  [][response'.op \in {"approve", "reject"} =>
     \A r \in RequestIds, a \in AdminCalls, ok \in BOOLEAN :
       (Approve(r, a.user, a.adminNote, ok) \/ Reject(r, a.user, a.adminNote, ok))
       => /\ ~HasRequest(r) =>
               /\ response'.code = 404
               /\ response'.message = <<"Class request not found">>
               /\ NothingWritten
          /\ (HasRequest(r) /\ StatusOf(r) # "Pending") =>
               /\ response'.code = 400
               /\ response'.message = <<"Class request is not pending">>
               /\ NothingWritten
          /\ response'.code = 200 => (HasRequest(r) /\ StatusOf(r) = "Pending")
    ]_vars

\* C8 witness: a reject has just been refused as "not pending" while a
\* Rejected request with its adminResponse exists.
C8_RejectOfDecidedRefused ==
  /\ response.op = "reject"
  /\ response.code = 400
  /\ response.message = <<"Class request is not pending">>
  /\ notified = <<>>
  /\ \E r \in RequestIds :
       /\ HasRequest(r) /\ StatusOf(r) = "Rejected"
       /\ classRequests[r].adminResponse # Null
       /\ \A q \in RequestIds \ {r} : ~HasRequest(q)

\* C9: changeStatus to Approved of a request that is not Approved, whose
\* student is not enrolled in a full class, answers 400 "Class is at full
\* capacity" and writes nothing: status, adminResponse and both lists stay.
C9_ChangeToApprovedFullRefused ==
  [][response'.op = "changeStatus" =>
     \A r \in RequestIds, a \in AdminCalls, ok \in BOOLEAN :
       (/\ HasRequest(r) /\ StatusOf(r) # "Approved" /\ FullFor(r)
        /\ ChangeStatus(r, "Approved", a.user, a.adminNote, ok))
       => /\ response'.code = 400
          /\ response'.message = <<"Class is at full capacity">>
          /\ NothingWritten]_vars

\* C9 witness: changeStatus to Approved has just been refused for capacity
\* and a Rejected request for the full class keeps its reject adminResponse.
C9_RejectedStaysRejected ==
  /\ response.op = "changeStatus"
  /\ response.code = 400
  /\ response.message = <<"Class is at full capacity">>
  /\ notified = <<>>
  /\ \E r \in RequestIds :
       /\ HasRequest(r) /\ StatusOf(r) = "Rejected" /\ FullFor(r)
       /\ classRequests[r].adminResponse.actionNote = <<"Request rejected">>
       /\ \A q \in RequestIds \ {r} : HasRequest(q) => StatusOf(q) = "Approved"

PendingRequests == {r \in RequestIds : HasRequest(r) /\ StatusOf(r) = "Pending"}
Min(a, b) == IF a <= b THEN a ELSE b

\* C11: a bulk approval over a snapshot of N Pending requests answers 200 with
\* approvedCount = N - M and failedCount = M, where the M failed requests are
\* those still Pending afterwards: each has a failure entry with the capacity
\* reason, its class is full without its student, and it gained no
\* membership. The N - M others are Approved with both memberships. Every
\* roster grows by appending and is filled as far as its capacity and the
\* number of new students asking for it allow.
C11_BulkApprovalCounts ==
  [][(/\ response'.op = "approveAll"
      /\ \E a \in AdminCalls, fails \in SUBSET RequestIds :
           ApproveAll(a.user, a.adminNote, fails)
      /\ PendingRequests # {})
     =>
     LET snapshot == PendingRequests
         approved == {r \in snapshot : classRequests'[r].status = "Approved"}
         failed == {r \in snapshot : classRequests'[r].status = "Pending"}
         entrants(c) == {StudentOf(r) : r \in {q \in snapshot : ClassOf(q) = c}}
                          \ {enrolledStudents[c][k] : k \in DOMAIN enrolledStudents[c]}
     IN
     /\ response'.code = 200
     /\ approved \cup failed = snapshot
     /\ response'.approvedCount = Cardinality(snapshot) - Cardinality(failed)
     /\ response'.failedCount = Cardinality(failed)
     /\ Len(response'.failedRequests) = Cardinality(failed)
     /\ \A k \in DOMAIN response'.failedRequests :
          /\ response'.failedRequests[k].reason = "Class is at full capacity"
          /\ \E r \in failed :
               /\ response'.failedRequests[k].studentName = StudentOf(r)
               /\ response'.failedRequests[k].className = ClassOf(r)
     /\ \A r \in failed :
          /\ classRequests'[r] = classRequests[r]
          /\ ~IsEnrolled(enrolledStudents'[ClassOf(r)], StudentOf(r))
          /\ Len(enrolledStudents'[ClassOf(r)]) >= Class(ClassOf(r)).capacity
          /\ IsEnrolled(enrolledClasses'[StudentOf(r)], ClassOf(r))
               = IsEnrolled(enrolledClasses[StudentOf(r)], ClassOf(r))
     /\ \A r \in approved :
          /\ IsEnrolled(enrolledStudents'[ClassOf(r)], StudentOf(r))
          /\ IsEnrolled(enrolledClasses'[StudentOf(r)], ClassOf(r))
     /\ \A r \in RequestIds \ approved : classRequests'[r] = classRequests[r]
     /\ \A c \in ClassIds :
          /\ SubSeq(enrolledStudents'[c], 1, Len(enrolledStudents[c]))
               = enrolledStudents[c]
          /\ Len(enrolledStudents'[c])
               = Min(Class(c).capacity,
                     Len(enrolledStudents[c]) + Cardinality(entrants(c)))
    ]_vars

\* C11 witness: a bulk approval over two Pending requests (N = 2) has just
\* approved the first and refused the second for capacity (M = 1): the
\* first student alone is on the roster, the second request is still
\* Pending and its student has no class.
C11_OneOfTwoApproved ==
  /\ response.op = "approveAll"
  /\ response.code = 200
  /\ response.approvedCount = 1
  /\ response.failedCount = 1
  /\ Len(response.failedRequests) = 1
  /\ HasRequest(1) /\ HasRequest(2)
  /\ StatusOf(1) = "Approved" /\ StatusOf(2) = "Pending"
  /\ classRequests[1].adminResponse.actionNote = <<"Bulk approval by administrator">>
  /\ ClassOf(1) = ClassOf(2)
  /\ enrolledStudents[ClassOf(1)] = <<StudentOf(1)>>
  /\ enrolledClasses[StudentOf(1)] = <<ClassOf(1)>>
  /\ enrolledClasses[StudentOf(2)] = <<>>
  /\ response.failedRequests[1] =
       FailedRequest(classRequests[2], "Class is at full capacity")

\* C13: a bulk approval answers 400 "No pending class requests found" exactly
\* when no request is Pending, and then writes nothing: no request, no
\* membership list, no notification. Whatever it answers, the requests that
\* are not Pending and the deleted ones stay as they are.
C13_BulkApprovalNeedsPending ==
  [][response'.op = "approveAll" =>
       /\ response'.code \in {200, 400}
       /\ response'.code = 400 <=> PendingRequests = {}
       /\ response'.code = 400 =>
            /\ response'.message = <<"No pending class requests found">>
            /\ NothingWritten
       /\ \A r \in RequestIds \ PendingRequests :
            classRequests'[r] = classRequests[r]
       /\ \A k \in DOMAIN notified' :
            notified'[k].classRequestId \in PendingRequests]_vars

\* C13 witness: a bulk approval has just been refused for want of a Pending
\* request while an Approved request and a Rejected one exist, each with
\* the adminResponse of its decision.
C13_RefusedWithDecidedRequests ==
  /\ response.op = "approveAll"
  /\ response.code = 400
  /\ response.message = <<"No pending class requests found">>
  /\ notified = <<>>
  /\ \E r1, r2 \in RequestIds :
       /\ HasRequest(r1) /\ StatusOf(r1) = "Approved"
       /\ classRequests[r1].adminResponse.actionNote = <<"Request approved">>
       /\ IsEnrolled(enrolledStudents[ClassOf(r1)], StudentOf(r1))
       /\ HasRequest(r2) /\ StatusOf(r2) = "Rejected"
       /\ classRequests[r2].adminResponse.actionNote = <<"Request rejected">>

\* C14: the student's delete of an existing request answers 403 when the
\* caller is a student who does not own it, whatever its status, and 400
\* when the caller owns it and it is Approved or Rejected; it answers 200
\* only to the owner of a Pending request. A caller without a student
\* record, and any caller naming a missing request, is answered 404. Every
\* answer but 200 leaves all requests and lists as they were.
C14_OnlyOwnerDeletesPending ==
  [][response'.op = "delete" =>
     \A u \in UserIds, r \in RequestIds :
       Delete(u, r) =>
         /\ (HasRequest(r) /\ StudentFindOne(u) # NoId
                /\ StudentOf(r) # StudentFindOne(u)) =>
              /\ response'.code = 403
              /\ response'.message = <<"You can only delete your own class requests">>
         /\ (HasRequest(r) /\ StudentOf(r) = StudentFindOne(u)
                /\ StatusOf(r) # "Pending") =>
              /\ response'.code = 400
              /\ response'.message = <<"You can only delete pending class requests">>
         /\ (~HasRequest(r) \/ StudentFindOne(u) = NoId) => response'.code = 404
         /\ response'.code = 200 =>
              /\ HasRequest(r)
              /\ StudentOf(r) = StudentFindOne(u)
              /\ StatusOf(r) = "Pending"
         /\ response'.code # 200 => NothingWritten]_vars

\* C14 witness: a delete has just been answered 403 while the only request
\* is Approved, with its membership: a student other than its owner asked.
C14_ForeignDeleteRefused ==
  /\ response.op = "delete"
  /\ response.code = 403
  /\ notified = <<>>
  /\ \E r \in RequestIds :
       /\ HasRequest(r) /\ StatusOf(r) = "Approved"
       /\ classRequests[r].adminResponse # Null
       /\ IsEnrolled(enrolledStudents[ClassOf(r)], StudentOf(r))
       /\ \A q \in RequestIds \ {r} : ~HasRequest(q)

\* C15: the student's delete that is answered 200, and the admin's delete
\* of a Pending or Rejected request, remove that request and nothing else:
\* every other request, every class's enrolledStudents and every student's
\* enrolledClasses stay as they were.
C15_DeleteOfUndecidedKeepsMembership ==
  [][response'.op \in {"delete", "adminDelete"} =>
     \A r \in RequestIds :
       /\ \A u \in UserIds :
            (Delete(u, r) /\ response'.code = 200) =>
              /\ HasRequest(r) /\ StatusOf(r) = "Pending"
              /\ classRequests' = [classRequests EXCEPT ![r] = Null]
              /\ MembershipUnchanged
       /\ \A ok \in BOOLEAN :
            (AdminDelete(r, ok) /\ HasRequest(r) /\ StatusOf(r) # "Approved") =>
              /\ response'.code = 200
              /\ classRequests' = [classRequests EXCEPT ![r] = Null]
              /\ MembershipUnchanged]_vars

\* C15 witness: the admin has just deleted a Pending request of a student
\* who is enrolled in its class through another, Approved request; the
\* student is still on the roster and still has the class.
C15_PendingDeletedBesideApproved ==
  /\ response.op = "adminDelete"
  /\ response.code = 200
  /\ response.request = [status |-> "Pending"]
  /\ nextId = 3
  /\ \E r \in RequestIds :
       /\ HasRequest(r) /\ StatusOf(r) = "Approved"
       /\ \A q \in RequestIds \ {r} : ~HasRequest(q)
       /\ notified = <<Notification(StudentOf(r), "general", 3 - r, ClassOf(r))>>
       /\ enrolledStudents[ClassOf(r)] = <<StudentOf(r)>>
       /\ enrolledClasses[StudentOf(r)] = <<ClassOf(r)>>

C17_CreateRefusedWritesNothing ==
  [][response'.op = "create" =>
     \A u \in UserIds, c \in ClassIds \cup {NoSuchClass}, reason \in Reasons :
       Create(u, c, reason) =>
         LET sid == StudentFindOne(u)
             noStudent == sid = NoId
             notApproved == ~noStudent /\ Student(sid).status # "Approved"
             noClass == c \notin ClassIds
             unavailable ==
               ~noClass /\ (~Class(c).isActive \/ Class(c).type # "Normal")
             enrolled ==
               ~noStudent /\ ~noClass /\ IsEnrolled(enrolledClasses[sid], c)
             pending ==
               ~noStudent /\ \E r \in PendingRequests :
                                StudentOf(r) = sid /\ ClassOf(r) = c
             studentInOrder == ~noStudent /\ ~notApproved
             classInOrder == ~noClass /\ ~unavailable
         IN
         /\ (noStudent \/ notApproved \/ noClass \/ unavailable
                \/ enrolled \/ pending) =>
              /\ response'.code \in {400, 404}
              /\ NothingWritten
              /\ nextId' = nextId
         /\ noStudent =>
              /\ response'.code = 404
              /\ response'.message = <<"Student profile not found">>
         /\ notApproved =>
              /\ response'.code = 400
              /\ response'.message =
                   <<"Student registration must be approved before requesting class enrollment">>
         /\ (studentInOrder /\ noClass) =>
              /\ response'.code = 404
              /\ response'.message = <<"Class not found">>
         /\ (studentInOrder /\ unavailable) =>
              /\ response'.code = 400
              /\ response'.message = <<"Class is not available for enrollment">>
         /\ (studentInOrder /\ classInOrder /\ enrolled) =>
              /\ response'.code = 400
              /\ response'.message = <<"Already enrolled in this class">>
         /\ (studentInOrder /\ classInOrder /\ ~enrolled /\ pending) =>
              /\ response'.code = 400
              /\ response'.message =
                   <<"You already have a pending request for this class">>
    ]_vars

\* C17 witness: a create has just been refused because of the student's
\* Pending request for the class, which is the only request there is.
C17_SecondRequestRefused ==
  /\ response.op = "create"
  /\ response.code = 400
  /\ response.message = <<"You already have a pending request for this class">>
  /\ nextId = 2
  /\ HasRequest(1) /\ StatusOf(1) = "Pending"
  /\ classRequests[1].adminResponse = Null
  /\ ~HasRequest(2)
  /\ notified = <<>>

----------------------------------------------------------------------------
\* Properties of the handlers run one at a time with store writes that fail
\* (FaultSpec). A property of what a handler does whatever its faults is
\* stated of its outcome in every reachable state: the action of the handler
\* makes that outcome the next state.

IsPrefix(s, t) == Len(s) <= Len(t) /\ SubSeq(t, 1, Len(s)) = s

\* What approveAllPendingRequests has stored after the first k items of
\* its batch
AfterItems(k, user, adminNote, faults) ==
  approveEachWithFaults(
    [classRequests |-> classRequests,
     enrolledStudents |-> enrolledStudents, enrolledClasses |-> enrolledClasses,
     rosters |-> enrolledStudents, classes |-> enrolledClasses,
     notified |-> <<>>,
     approvedCount |-> 0, failedCount |-> 0, failedRequests |-> <<>>],
    SubSeq(PendingFrom(classRequests, 1), 1, k), user, adminNote, faults)

\* C12: in every state with a Pending request, a bulk approval answers 200
\* whatever save() throws and whatever class is full. approvedCount +
\* failedCount is the size of the snapshot; the approved requests are those
\* it leaves Approved, each notified once; the others are left as they were
\* and there is one failure entry for each of them, with the capacity or the
\* processing reason. What the first k items stored is still stored at the
\* end: the requests they approved and the memberships they added.
C12_BulkApprovalSurvivesItemFailures ==
  PendingRequests # {} =>
  \A a \in FaultCalls, faults \in [RequestIds -> Saves \cup {NoFault}] :
    LET out == approveAllPendingRequestsWithFaults(a.user, a.adminNote, faults)
        snapshot == PendingRequests
        approved == {r \in snapshot : out.classRequests[r].status = "Approved"}
        failed == snapshot \ approved
        entries == out.response.failedRequests
    IN
    /\ out.response.code = 200
    /\ out.response.approvedCount + out.response.failedCount = Cardinality(snapshot)
    /\ out.response.approvedCount = Cardinality(approved)
    /\ Len(entries) = out.response.failedCount
    /\ \A s \in StudentIds, c \in ClassIds :
         Cardinality({k \in DOMAIN entries :
                        entries[k].studentName = s /\ entries[k].className = c})
           = Cardinality({r \in failed : StudentOf(r) = s /\ ClassOf(r) = c})
    /\ \A k \in DOMAIN entries :
         entries[k].reason \in {"Class is at full capacity", "Processing error"}
    /\ Len(out.notified) = Cardinality(approved)
    /\ \A r \in approved :
         \E k \in DOMAIN out.notified : out.notified[k].classRequestId = r
    /\ \A r \in RequestIds \ approved : out.classRequests[r] = classRequests[r]
    /\ \A k \in 0..Cardinality(snapshot) :
         LET mid == AfterItems(k, a.user, a.adminNote, faults) IN
         /\ \A r \in RequestIds :
              mid.classRequests[r] # classRequests[r]
                => out.classRequests[r] = mid.classRequests[r]
         /\ \A c \in ClassIds :
              /\ IsPrefix(enrolledStudents[c], mid.enrolledStudents[c])
              /\ IsPrefix(mid.enrolledStudents[c], out.enrolledStudents[c])
         /\ \A s \in StudentIds :
              /\ IsPrefix(enrolledClasses[s], mid.enrolledClasses[s])
              /\ IsPrefix(mid.enrolledClasses[s], out.enrolledClasses[s])
         /\ mid.approvedCount + mid.failedCount = k

\* C12 witness: a bulk approval over two Pending requests has approved the
\* first and then failed on the second with a processing error after the
\* class was saved: the first is Approved with both memberships, the second
\* is Pending and its student is on the roster without having the class.
C12_SecondItemFailed ==
  /\ response.op = "approveAll"
  /\ response.code = 200
  /\ response.approvedCount = 1
  /\ response.failedCount = 1
  /\ HasRequest(1) /\ HasRequest(2)
  /\ response.failedRequests = <<FailedRequest(classRequests[2], "Processing error")>>
  /\ StatusOf(1) = "Approved" /\ StatusOf(2) = "Pending"
  /\ classRequests[1].adminResponse.actionNote = <<"Bulk approval by administrator">>
  /\ IsEnrolled(enrolledStudents[ClassOf(1)], StudentOf(1))
  /\ IsEnrolled(enrolledClasses[StudentOf(1)], ClassOf(1))
  /\ StudentOf(1) # StudentOf(2)
  /\ IsEnrolled(enrolledStudents[ClassOf(2)], StudentOf(2))
  /\ ~IsEnrolled(enrolledClasses[StudentOf(2)], ClassOf(2))
  /\ Len(notified) = 1

\* A save() of the membership step of changeStatus of request r to status
\* throws: of the class or the student, in the removal when the entry is
\* there to remove, in the add when the class has room and the entry is to
\* push
MembershipWriteThrows(r, status, failing) ==
  LET sid == StudentOf(r)
      cid == ClassOf(r)
      onRoster == IsEnrolled(enrolledStudents[cid], sid)
      inList == IsEnrolled(enrolledClasses[sid], cid)
      classThrows == ~onRoster /\ "class" \in failing
      unclassThrows == onRoster /\ "class" \in failing
  IN
  \/ /\ StatusOf(r) = "Approved" /\ status # "Approved"
     /\ unclassThrows \/ (inList /\ "student" \in failing)
  \/ /\ StatusOf(r) # "Approved" /\ status = "Approved"
     /\ onRoster \/ Len(enrolledStudents[cid]) < Class(cid).capacity
     /\ classThrows \/ (~inList /\ "student" \in failing)

\* C20 (as claimed): when a save() of the membership step of changeStatus
\* throws, the request keeps its status and its adminResponse.
C20_StatusKeptWhenMembershipWriteFails ==
  \A r \in RequestIds, s \in Statuses, a \in FaultCalls, failing \in SUBSET Saves :
    (HasRequest(r) /\ MembershipWriteThrows(r, s, failing)) =>
      changeClassRequestStatusWithFaults(r, s, a.user, a.adminNote, failing)
        .classRequests[r] = classRequests[r]

----------------------------------------------------------------------------
\* Properties of the students' own handlers (RegisterSpec)

\* C19 (as claimed): registerStudent, updateOwnProfile, createClassRequest,
\* rejectClassRequest and deleteClassRequest leave every student's
\* enrolledClasses as it was.
C19_EnrolledClassesOnlyByApproval ==
  [][response'.op \in {"register", "updateProfile", "create", "reject", "delete"}
       => enrolledClasses' = enrolledClasses]_vars

----------------------------------------------------------------------------
\* Properties of the three calls in a row (RoundTripSpec)

\* How often x is in list, and the entries of list
Count(list, x) == Len(SelectSeq(list, LAMBDA y : y = x))
Entries(list) == {list[k] : k \in DOMAIN list}

\* C18: after approve of a Pending request (answered 200), changeStatus to
\* Rejected and changeStatus to Approved of that request, one after the
\* other, the last call was answered 200, the request is Approved, its
\* student is once on the roster of its class and its class once in the
\* student's list, and every roster and every list has the entries it had
\* after the approve.
C18_RoundTripKeepsOneMembership ==
  Trip.pc = "done" =>
    LET r == Trip.pendingRequests[1] IN
    /\ response.op = "changeStatus"
    /\ response.code = 200
    /\ HasRequest(r)
    /\ StatusOf(r) = "Approved"
    /\ Count(enrolledStudents[ClassOf(r)], StudentOf(r)) = 1
    /\ Count(enrolledClasses[StudentOf(r)], ClassOf(r)) = 1
    /\ \A c \in ClassIds :
         /\ Entries(enrolledStudents[c]) = Entries(Trip.rosters[c])
         /\ Len(enrolledStudents[c]) = Len(Trip.rosters[c])
    /\ \A s \in StudentIds :
         /\ Entries(enrolledClasses[s]) = Entries(Trip.classes[s])
         /\ Len(enrolledClasses[s]) = Len(Trip.classes[s])

\* C18 witness: the three calls are done on a request for a class of
\* capacity 2 that is full with its student and another; the request has
\* the adminResponse of the last call.
C18_RoundTripInFullClass ==
  /\ Trip.pc = "done"
  /\ response.code = 200
  /\ LET r == Trip.pendingRequests[1] IN
     /\ StatusOf(r) = "Approved"
     /\ classRequests[r].adminResponse.actionNote
          = <<"Status changed from", "Rejected", "to", "Approved">>
     /\ Len(enrolledStudents[ClassOf(r)]) = 2
     /\ Class(ClassOf(r)).capacity = 2
     /\ IsEnrolled(enrolledStudents[ClassOf(r)], StudentOf(r))
     /\ enrolledClasses[StudentOf(r)] = <<ClassOf(r)>>

----------------------------------------------------------------------------
\* Properties of the handlers in flight together (ConcSpec)

\* C2 (as claimed): no class ever has more enrolled students than its
\* capacity, also when approve / changeStatus-to-Approved / approveAllPending
\* handlers for different requests on one class interleave at their reads
\* and writes.
C2_CapacityRespectedConcurrently ==
  (\A p, q \in Procs :
     p # q => \A k \in DOMAIN proc[p].pendingRequests,
                 l \in DOMAIN proc[q].pendingRequests :
                proc[p].pendingRequests[k] # proc[q].pendingRequests[l])
  => \A c \in ClassIds : Len(enrolledStudents[c]) <= Class(c).capacity

----------------------------------------------------------------------------
\* Effects of the single handlers (Spec), stated of what a handler called in
\* the current state leaves behind

\* C21: an approve answered 200 leaves the request Approved with the
\* adminResponse of the acting admin, the student on the class's roster and
\* the class in the student's list; the roster is one longer if the student
\* was not on it and as long as before if the student was; and an approve of
\* a Pending request whose student is on the roster already is answered 200
\* with every roster as it was, whether or not the class is full.
C21_ApproveEnrolls ==
  \A r \in RequestIds, a \in AdminCalls, ok \in BOOLEAN :
    LET out == approveClassRequest(r, a.user, a.adminNote, ok) IN
    /\ out.response.code = 200 =>
         LET sid == StudentOf(r)
             cid == ClassOf(r)
         IN
         /\ out.classRequests[r].status = "Approved"
         /\ out.classRequests[r].adminResponse # Null
         /\ out.classRequests[r].adminResponse.actionBy = a.user
         /\ IsEnrolled(out.enrolledStudents[cid], sid)
         /\ IsEnrolled(out.enrolledClasses[sid], cid)
         /\ Len(out.enrolledStudents[cid]) =
              Len(enrolledStudents[cid])
                + (IF IsEnrolled(enrolledStudents[cid], sid) THEN 0 ELSE 1)
    /\ (/\ HasRequest(r) /\ StatusOf(r) = "Pending"
        /\ IsEnrolled(enrolledStudents[ClassOf(r)], StudentOf(r)))
       => /\ out.response.code = 200
          /\ out.enrolledStudents = enrolledStudents

\* C21 witness: an approve has just been answered 200 for the second request
\* of a student for class c1 of capacity 1, whose first request was Approved
\* before; the student is the one entry of the full roster.
C21_ApprovedAsMemberOfFullClass ==
  /\ response.op = "approve"
  /\ response.code = 200
  /\ \E r, q \in RequestIds :
       /\ r # q
       /\ response.request = [id |-> r]
       /\ HasRequest(r) /\ HasRequest(q)
       /\ StudentOf(r) = StudentOf(q)
       /\ ClassOf(r) = "c1" /\ ClassOf(q) = "c1"
       /\ StatusOf(r) = "Approved" /\ StatusOf(q) = "Approved"
       /\ classRequests[q].adminResponse.actionNote
            = <<"Status changed from", "Rejected", "to", "Approved">>
       /\ enrolledStudents["c1"] = <<StudentOf(r)>>
       /\ Len(enrolledStudents["c1"]) = Class("c1").capacity

\* C22: a reject answered 200 leaves the request Rejected with the
\* adminResponse of the acting admin, and every roster, every student's list
\* and every other request as they were.
C22_RejectChangesTheRequestOnly ==
  \A r \in RequestIds, a \in AdminCalls, ok \in BOOLEAN :
    LET out == rejectClassRequest(r, a.user, a.adminNote, ok) IN
    out.response.code = 200 =>
      /\ out.classRequests[r].status = "Rejected"
      /\ out.classRequests[r].adminResponse # Null
      /\ out.classRequests[r].adminResponse.actionBy = a.user
      /\ out.classRequests[r].student = StudentOf(r)
      /\ out.classRequests[r].class = ClassOf(r)
      /\ out.enrolledStudents = enrolledStudents
      /\ out.enrolledClasses = enrolledClasses
      /\ \A q \in RequestIds \ {r} : out.classRequests[q] = classRequests[q]

\* C22 witness: a reject has just been answered 200 for a request whose
\* student is on the roster of its class through another, Approved request,
\* and is still on it.
C22_RejectedBesideApproved ==
  /\ response.op = "reject"
  /\ response.code = 200
  /\ \E r, q \in RequestIds :
       /\ r # q
       /\ response.request = [id |-> r]
       /\ HasRequest(r) /\ HasRequest(q)
       /\ StatusOf(r) = "Rejected"
       /\ classRequests[r].adminResponse.actionNote = <<"Request rejected">>
       /\ StatusOf(q) = "Approved"
       /\ StudentOf(q) = StudentOf(r) /\ ClassOf(q) = ClassOf(r)
       /\ IsEnrolled(enrolledStudents[ClassOf(r)], StudentOf(r))
       /\ IsEnrolled(enrolledClasses[StudentOf(r)], ClassOf(r))

\* C23: a create answered 201 adds one request, Pending and without
\* adminResponse, of the caller's student for the given class, where there
\* was none; every other request, every roster and every student's list stay
\* as they were, and no notification is created.
C23_CreateAddsOnePendingRequest ==
  \A u \in UserIds, c \in ClassIds \cup {NoSuchClass}, reason \in Reasons :
    LET out == createClassRequest(u, c, reason) IN
    (nextId <= MaxRequests /\ out.response.code = 201) =>
      /\ \E r \in RequestIds :
           /\ ~HasRequest(r)
           /\ out.response.request = [id |-> r]
           /\ out.classRequests[r] # Null
           /\ out.classRequests[r].student = StudentFindOne(u)
           /\ out.classRequests[r].class = c
           /\ out.classRequests[r].status = "Pending"
           /\ out.classRequests[r].adminResponse = Null
           /\ \A q \in RequestIds \ {r} : out.classRequests[q] = classRequests[q]
      /\ out.enrolledStudents = enrolledStudents
      /\ out.enrolledClasses = enrolledClasses
      /\ out.notified = <<>>

\* C23 witness: a create has just been answered 201 for a second request,
\* while the first, of another student, is Approved with its membership.
C23_CreatedBesideApproved ==
  /\ response.op = "create"
  /\ response.code = 201
  /\ response.request = [id |-> 2]
  /\ notified = <<>>
  /\ HasRequest(1) /\ HasRequest(2)
  /\ StatusOf(1) = "Approved"
  /\ StudentOf(1) # StudentOf(2)
  /\ enrolledStudents[ClassOf(1)] = <<StudentOf(1)>>
  /\ StatusOf(2) = "Pending"
  /\ classRequests[2].adminResponse = Null
  /\ enrolledClasses[StudentOf(2)] = <<>>

\* C24: every Approved or Rejected request has an adminResponse; a write to
\* a request that stays in the collection leaves it with an adminResponse, so
\* a request without one has been Pending since it was created; and an
\* approve, reject or changeStatus answered 200, and a bulk approval for each
\* request it approves, leave the adminResponse of the acting admin.
C24_AdminResponseRecorded ==
  /\ [](/\ \A r \in RequestIds :
             (HasRequest(r) /\ StatusOf(r) \in {"Approved", "Rejected"})
               => classRequests[r].adminResponse # Null
        /\ \A r \in RequestIds, a \in AdminCalls, ok \in BOOLEAN :
             /\ LET out == approveClassRequest(r, a.user, a.adminNote, ok) IN
                out.response.code = 200 =>
                  out.classRequests[r].adminResponse.actionBy = a.user
             /\ LET out == rejectClassRequest(r, a.user, a.adminNote, ok) IN
                out.response.code = 200 =>
                  out.classRequests[r].adminResponse.actionBy = a.user
             /\ \A s \in Statuses :
                  LET out == changeClassRequestStatus(r, s, a.user, a.adminNote, ok) IN
                  out.response.code = 200 =>
                    out.classRequests[r].adminResponse.actionBy = a.user
        /\ \A a \in AdminCalls, fails \in SUBSET RequestIds :
             LET out == approveAllPendingRequests(a.user, a.adminNote, fails) IN
             \A r \in PendingRequests :
               out.classRequests[r].status = "Approved" =>
                 out.classRequests[r].adminResponse.actionBy = a.user)
  /\ [][\A r \in RequestIds :
          (/\ HasRequest(r) /\ classRequests'[r] # Null
           /\ classRequests'[r] # classRequests[r])
          => classRequests'[r].adminResponse # Null]_vars

\* C24 witness: changeStatus by admin2 has just put a Rejected request back
\* to Pending; it carries admin2's adminResponse, while the other request,
\* Pending since its creation, has none.
C24_PendingWithAndWithoutResponse ==
  /\ response.op = "changeStatus"
  /\ response.code = 200
  /\ response.message = <<"Class request status changed from", "Rejected",
                          "to", "Pending", "successfully">>
  /\ \E r, q \in RequestIds :
       /\ response.request = [id |-> r]
       /\ HasRequest(r) /\ HasRequest(q)
       /\ StatusOf(r) = "Pending"
       /\ classRequests[r].adminResponse = AdminResponse("admin2", <<"checked">>)
       /\ StatusOf(q) = "Pending"
       /\ classRequests[q].adminResponse = Null

\* C25: no status is terminal. For a request in any status, changeStatus to
\* each of the other two statuses is answered 200 and stores that status,
\* unless the new status is Approved and the class is full without the
\* student; and adminDelete of a request in any status is answered 200 and
\* removes it.
C25_NoTerminalStatus ==
  \A r \in RequestIds :
    HasRequest(r) =>
      /\ \A s \in Statuses \ {StatusOf(r)}, a \in AdminCalls, ok \in BOOLEAN :
           LET out == changeClassRequestStatus(r, s, a.user, a.adminNote, ok) IN
           ~(s = "Approved" /\ FullFor(r)) =>
             /\ out.response.code = 200
             /\ out.classRequests[r] # Null
             /\ out.classRequests[r].status = s
      /\ \A ok \in BOOLEAN :
           LET out == adminDeleteClassRequest(r, ok) IN
           /\ out.response.code = 200
           /\ out.classRequests[r] = Null

\* C25 witness: changeStatus has just put an Approved request back to
\* Pending, beside a request that is Rejected and one of class c1 (capacity
\* 1) whose roster is empty again.
C25_ApprovedBackToPending ==
  /\ response.op = "changeStatus"
  /\ response.code = 200
  /\ response.message = <<"Class request status changed from", "Approved",
                          "to", "Pending", "successfully">>
  /\ \E r, q \in RequestIds :
       /\ response.request = [id |-> r]
       /\ HasRequest(r) /\ HasRequest(q)
       /\ StatusOf(r) = "Pending"
       /\ ClassOf(r) = "c1"
       /\ classRequests[r].adminResponse # Null
       /\ enrolledStudents["c1"] = <<>>
       /\ StatusOf(q) = "Rejected"

----------------------------------------------------------------------------
\* Properties of the handlers in flight together, the students' among them
\* (RaceSpec)

\* C26 (as claimed): of two create calls of one student for one class that
\* are in flight together, at most one is answered 201, and no two Pending
\* requests of that student for that class exist once both have answered.
C26_OneOfTwoCreatesSucceeds ==
  \A p, q \in Procs :
    (/\ p # q
     /\ proc[p].pc = "done" /\ proc[q].pc = "done"
     /\ proc[p].op = "create" /\ proc[q].op = "create"
     /\ proc[p].draft.student = proc[q].draft.student
     /\ proc[p].draft.class = proc[q].draft.class)
    => /\ ~(proc[p].response.code = 201 /\ proc[q].response.code = 201)
       /\ Cardinality({r \in RequestIds :
                         /\ HasRequest(r) /\ StatusOf(r) = "Pending"
                         /\ StudentOf(r) = proc[p].draft.student
                         /\ ClassOf(r) = proc[p].draft.class}) <= 1

\* C27 (as claimed): of an approve and a reject of one Pending request that
\* are in flight together, at most one is answered 200, and when the request
\* ends Rejected its student is not on the roster of its class nor its class
\* in the student's list (no request was decided before the two calls, so
\* an entry can only come from the approve).
C27_ApproveOrRejectWins ==
  \A p, q \in Procs :
    (/\ proc[p].pc = "done" /\ proc[q].pc = "done"
     /\ proc[p].op = "approve" /\ proc[q].op = "reject"
     /\ proc[p].pendingRequests = proc[q].pendingRequests)
    => LET r == proc[p].pendingRequests[1] IN
       /\ ~(proc[p].response.code = 200 /\ proc[q].response.code = 200)
       /\ (HasRequest(r) /\ StatusOf(r) = "Rejected") =>
            /\ ~IsEnrolled(enrolledStudents[ClassOf(r)], StudentOf(r))
            /\ ~IsEnrolled(enrolledClasses[StudentOf(r)], ClassOf(r))

\* The bulk approval of session p is about to process request r of its
\* snapshot, and the reject or delete of r by session q has been answered 200
DecidedBeforeItsTurn(p, q, r) ==
  /\ proc[p].op = "approveAll"
  /\ proc[p].pc = "pushClass"
  /\ Current(p) = r
  /\ proc[q].pc = "done"
  /\ proc[q].op \in {"reject", "delete"}
  /\ proc[q].response.code = 200
  /\ proc[q].pendingRequests = <<r>>

\* C28 (as claimed): a bulk approval does not enroll the student of a request
\* of its snapshot that another call rejected or deleted before the batch
\* came to it: the step of the batch that processes the item leaves every
\* roster as it was.
C28_BulkApprovalSkipsDecided ==
  [][\A p, q \in Procs, r \in RequestIds :
       DecidedBeforeItsTurn(p, q, r) => enrolledStudents' = enrolledStudents]_vars

----------------------------------------------------------------------------
\* Properties of approve with store writes that fail (ApproveFaultSpec)

\* C29 (as claimed): an approve that is answered with an error, one for a
\* save() of the class or the student that threw included, leaves the
\* request Pending (or absent, or decided, as it was) and both membership
\* lists as they were.
C29_FailedApproveWritesNothing ==
  \A r \in RequestIds, a \in FaultCalls, failing \in SUBSET Saves :
    LET out == approveClassRequestWithFaults(r, a.user, a.adminNote, failing) IN
    out.response.code # 200 =>
      /\ out.classRequests = classRequests
      /\ out.enrolledStudents = enrolledStudents
      /\ out.enrolledClasses = enrolledClasses

----------------------------------------------------------------------------
\* Rosters and Approved requests (Spec)

\* C30: with the handlers run one at a time from empty rosters, every
\* student on the roster of a class has an Approved request for that class;
\* so no entry stays when the last Approved request of its pair is gone.
C30_RosterEntryHasApprovedRequest ==
  \A c \in ClassIds :
    \A k \in DOMAIN enrolledStudents[c] :
      \E r \in RequestIds :
        /\ HasRequest(r)
        /\ StatusOf(r) = "Approved"
        /\ StudentOf(r) = enrolledStudents[c][k]
        /\ ClassOf(r) = c

\* C30 witness: changeStatus has just taken a request from Approved to
\* Pending; its student is off the roster, on which the student of the
\* other, Approved request remains.
C30_EntryGoneWithApproval ==
  /\ response.op = "changeStatus"
  /\ response.code = 200
  /\ response.message = <<"Class request status changed from", "Approved",
                          "to", "Pending", "successfully">>
  /\ \E r, q \in RequestIds :
       /\ response.request = [id |-> r]
       /\ HasRequest(r) /\ HasRequest(q)
       /\ StatusOf(r) = "Pending"
       /\ StatusOf(q) = "Approved"
       /\ ClassOf(r) = ClassOf(q)
       /\ StudentOf(r) # StudentOf(q)
       /\ enrolledStudents[ClassOf(r)] = <<StudentOf(q)>>

----------------------------------------------------------------------------
\* The two sides of the membership (Spec)

\* C31: with the handlers run one at a time from empty lists, student s is on
\* the roster of class c exactly when c is in the list of s.
C31_MembershipSidesAgree ==
  \A s \in StudentIds, c \in ClassIds :
    IsEnrolled(enrolledStudents[c], s) <=> IsEnrolled(enrolledClasses[s], c)

\* C31 witness: adminDelete has just removed an Approved request; the
\* student of the remaining Approved request is the one entry of the roster
\* and has the class as the one entry of the list.
C31_OneMemberLeftOnBothSides ==
  /\ response.op = "adminDelete"
  /\ response.code = 200
  /\ response.request = [status |-> "Approved"]
  /\ \E r, q \in RequestIds :
       /\ ~HasRequest(r)
       /\ HasRequest(q) /\ StatusOf(q) = "Approved"
       /\ enrolledStudents[ClassOf(q)] = <<StudentOf(q)>>
       /\ enrolledClasses[StudentOf(q)] = <<ClassOf(q)>>
       /\ Class(ClassOf(q)).capacity = 2
       /\ \A s \in StudentIds \ {StudentOf(q)} : enrolledClasses[s] = <<>>

----------------------------------------------------------------------------
\* Notifications and the changes they report (NotifySpec)

\* C32 (as claimed): when a handler has answered, every notification it
\* created reports a change that is stored: an approval, a request that is
\* Approved; a rejection, one that is Rejected; a status change, one that has
\* the status the call asked for; a deletion, a request that is gone.
C32_NotifiedAfterPersisted ==
  \A k \in DOMAIN notified :
    LET r == notified[k].classRequestId
        type == notified[k].type
    IN
    /\ type = "class_request_approved" => (HasRequest(r) /\ StatusOf(r) = "Approved")
    /\ type = "class_request_rejected" => (HasRequest(r) /\ StatusOf(r) = "Rejected")
    /\ type = "class_request_status_change" =>
         (HasRequest(r) /\ StatusOf(r) = response.message[4])
    /\ type = "general" => ~HasRequest(r)

----------------------------------------------------------------------------
\* Properties of the password reset (PasswordSpec)

\* C33: resetStudentPassword called without a verified password_reset OTP
\* document of the email and code is not answered 200 and leaves the
\* passwords and the OTP documents as they were; when it is answered 200 the
\* code of the email had been verified by verifyPasswordResetOTP, both
\* stored passwords are the hash of the new one, no password_reset document
\* of the email is left, and a second reset with the same email and code is
\* answered 400.
C33_ResetNeedsVerifiedCode ==
  [][\A email \in Emails, otp \in Codes, newPassword \in Passwords :
       ResetStudentPassword(email, otp, newPassword) =>
         LET verified == Otp(email, otp, TRUE) \in accounts.otps IN
         /\ ~verified => (response'.code # 200 /\ accounts' = accounts)
         /\ response'.code = 200 =>
              /\ verified
              /\ <<email, otp>> \in accounts.everVerified
              /\ accounts'.studentPassword =
                   [user |-> <<"hash", newPassword>>, student |-> <<"hash", newPassword>>]
              /\ \A o \in accounts'.otps : o.email # email
              /\ \A again \in Passwords :
                   (resetStudentPassword(email, otp, again).response.code = 400)'
    ]_vars

\* C33 witness: a reset has just been answered 200; the stored passwords are
\* the hash of new1, one code had been verified and no OTP document is left.
C33_PasswordReset ==
  /\ response.op = "resetPassword"
  /\ response.code = 200
  /\ accounts.studentPassword.user = <<"hash", "new1">>
  /\ accounts.studentPassword.student = <<"hash", "new1">>
  /\ Cardinality(accounts.everVerified) = 1
  /\ accounts.otps = {}

====
